---- MODULE Spec2Model ----
(***************************************************************************)
(* Donations-by-student report (elrioschool/datacor): the roster builder   *)
(* (makeStudentRows, addParent), the amount parser (parseDollarAmount) and *)
(* the attribution engine (assignDonationsToStudents), with the two        *)
(* readers of the transaction sheet, the loop that writes the roster to   *)
(* the "Donations By Student" sheet in each of the three programs, and the *)
(* order of the calls of run() of the cloud function, each of which may    *)
(* return an error, up to the write of the report object and the delete of *)
(* the transaction object.                                                 *)
(*                                                                         *)
(* Strings of the program that are only compared are TLA+ strings.  A text *)
(* that the program parses (an amount cell) is a sequence of one-character *)
(* strings.  A float64 amount is an exact rational: the integer number of  *)
(* 1/UnitsPerDollar dollars, so that a cent amount divided by 1, 2 or 3    *)
(* siblings is exact.  Rounding of float64 is outside the model.           *)
(***************************************************************************)
EXTENDS Integers, Sequences, FiniteSets, TLC

VARIABLES
    pc,                     \* position of the run
    parents,                \* makeStudentRows: the records getParents returned
    pi,                     \* makeStudentRows: index of the outer loop
    ci,                     \* makeStudentRows: index of the inner loop
    students,               \* the roster (AllStudents), name -> Student
    rows,                   \* the "Data" sheet of the transaction file
    donations,              \* the transactions given to assignDonationsToStudents
    drawn,                  \* how many of them the model has drawn
    ti,                     \* assignDonationsToStudents: transactions taken so far
    txn,                    \* assignDonationsToStudents: the loop variable txn
    validSiblings,          \* assignDonationsToStudents: validSiblings of txn
    sib,                    \* assignDonationsToStudents: index of the inner loop
    donationPerStudent,     \* assignDonationsToStudents: the share of txn
    before,                 \* history: the roster when txn was taken
    nonCareGiverDonations,  \* what readTransactionsByNonCareGivers returned
    amount,                 \* parseDollarAmount: its argument
    value,                  \* parseDollarAmount: its result
    data,                   \* the report: the rows made of the roster
    report,                 \* the report: sheet row number -> the row written
    bucket,                 \* run: the names of the objects in the bucket
    errors                  \* run: the calls that have returned an error

vars == <<pc, parents, pi, ci, students, rows, donations, drawn, ti, txn,
          validSiblings, sib, donationPerStudent, before,
          nonCareGiverDonations, amount, value, data, report, bucket,
          errors>>

----------------------------------------------------------------------------
(* Bounds of the model *)

\* parent records of a roster sheet
MaxParents == 4
\* transactions drawn by the attribution engine
MaxTxns == 2
\* data rows of a transaction sheet
MaxRows == 3
\* length of the exhaustively enumerated amount texts
MaxTextLen == 3
\* decimal places an amount is kept to
FracDigits == 3

----------------------------------------------------------------------------
(* Numbers *)

RECURSIVE Pow10(_)
Pow10(n) == IF n = 0 THEN 1 ELSE 10 * Pow10(n - 1)

\* the least common multiple of the sibling counts 1, 2, 3
SplitLcm == 6

UnitsPerDollar == SplitLcm * Pow10(FracDigits)

\* d dollars and c cents, as a float64 value of the model
Money(d, c) == (d * 100 + c) * (UnitsPerDollar \div 100)

----------------------------------------------------------------------------
(* Data model *)

NewStudent(name, class) ==
    [Name |-> name, Grade |-> "", Class |-> class,
     Parent1 |-> "", Parent2 |-> "", Parent3 |-> "",
     PrimaryDonor1 |-> "", PrimaryDonor2 |-> "", PrimaryDonor3 |-> "",
     PrimaryDonorsPerStudent |-> 0,
     PrimaryDonor1DonationAmount |-> 0,
     PrimaryDonor2DonationAmount |-> 0,
     PrimaryDonor3DonationAmount |-> 0,
     TotalDonationAmount |-> 0]

\* the zero value of Student
ZeroStudent == NewStudent("", "")

\* make(AllStudents)
EmptyRoster == [n \in {} |-> ZeroStudent]

NewParent(name, children) ==
    [Name |-> name, Children |-> children, AccountNumber |-> "A1"]

\* a sheet of the report that no row has been written to
NoRows == [i \in {} |-> <<>>]

NoTxn ==
    [Date |-> "", Name |-> "", Amount |-> <<>>,
     FirstStudentName |-> "", FirstStudentClass |-> "",
     SecondStudentName |-> "", SecondStudentClass |-> "",
     ThirdStudentName |-> "", ThirdStudentClass |-> "",
     AccountNumber |-> ""]

----------------------------------------------------------------------------
(* parseDollarAmount *)

Digits == {"0", "1", "2", "3", "4", "5", "6", "7", "8", "9"}

DigitVal(c) ==
    CASE c = "0" -> 0 [] c = "1" -> 1 [] c = "2" -> 2 [] c = "3" -> 3
      [] c = "4" -> 4 [] c = "5" -> 5 [] c = "6" -> 6 [] c = "7" -> 7
      [] c = "8" -> 8 [] c = "9" -> 9

\* strings.TrimPrefix(s, "$"): one leading "$" is removed, nothing else
TrimPrefix(s, prefix) ==
    IF Len(s) >= 1 /\ s[1] = prefix THEN SubSeq(s, 2, Len(s)) ELSE s

\* strings.ReplaceAll(s, " ", ""), which the readers apply to the amount cell
RECURSIVE ReplaceAll(_, _)
ReplaceAll(s, old) ==
    IF s = <<>> THEN <<>>
    ELSE IF Head(s) = old THEN ReplaceAll(Tail(s), old)
    ELSE <<Head(s)>> \o ReplaceAll(Tail(s), old)

\* the value of a run of decimal digits
RECURSIVE DigitsValue(_)
DigitsValue(s) ==
    IF s = <<>> THEN 0
    ELSE 10 * DigitsValue(SubSeq(s, 1, Len(s) - 1)) + DigitVal(s[Len(s)])

AllDigits(s) == \A i \in 1..Len(s) : s[i] \in Digits

DotPositions(s) == {i \in 1..Len(s) : s[i] = "."}

\* strconv.ParseFloat on a text over digits, ".", ",", "$", "+", "-", "/" and
\* the letters of "N/A": [sign] digits [ "." [digits] ] or [sign] "." digits.
\* ok is FALSE where ParseFloat returns an error.  (The exponent, hexadecimal,
\* underscore, Inf and NaN forms cannot be spelled with these characters.)
ParseFloat(s) ==
    LET signed == Len(s) >= 1 /\ s[1] \in {"+", "-"}
        body   == IF signed THEN SubSeq(s, 2, Len(s)) ELSE s
        dots   == DotPositions(body)
        dot    == IF dots = {} THEN Len(body) + 1 ELSE CHOOSE i \in dots : TRUE
        int    == SubSeq(body, 1, dot - 1)
        frac   == SubSeq(body, dot + 1, Len(body))
        kept   == SubSeq(frac, 1, IF Len(frac) < FracDigits THEN Len(frac) ELSE FracDigits)
        ok     == /\ Cardinality(dots) <= 1
                  /\ AllDigits(int) /\ AllDigits(frac)
                  /\ Len(int) + Len(frac) >= 1
        mag    == SplitLcm * (DigitsValue(int) * Pow10(FracDigits)
                              + DigitsValue(kept) * Pow10(FracDigits - Len(kept)))
    IN  IF ~ok THEN [ok |-> FALSE, value |-> 0]
        ELSE [ok |-> TRUE,
              value |-> IF signed /\ s[1] = "-" THEN 0 - mag ELSE mag]

parseDollarAmount(text) ==
    LET cleanedAmount == TrimPrefix(text, "$")
        parsed == ParseFloat(cleanedAmount)
    IN  IF ~parsed.ok THEN 0 ELSE parsed.value

----------------------------------------------------------------------------
(* Roster builder *)

\* variant: the slots are tried from the last to the first
addParentLastFirst(student, parentName) ==
    IF student.Parent3 = "" THEN [student EXCEPT !.Parent3 = parentName]
    ELSE IF student.Parent2 = "" THEN [student EXCEPT !.Parent2 = parentName]
    ELSE IF student.Parent1 = "" THEN [student EXCEPT !.Parent1 = parentName]
    ELSE student

\* variant: with no slot empty, the last slot is overwritten
addParentOverwrite(student, parentName) ==
    IF student.Parent1 = "" THEN [student EXCEPT !.Parent1 = parentName]
    ELSE IF student.Parent2 = "" THEN [student EXCEPT !.Parent2 = parentName]
    ELSE [student EXCEPT !.Parent3 = parentName]

\* variant: a name that is in a slot of the student is not added again
addParentDedup(student, parentName) ==
    IF parentName \in {student.Parent1, student.Parent2, student.Parent3}
    THEN student
    ELSE IF student.Parent1 = "" THEN [student EXCEPT !.Parent1 = parentName]
    ELSE IF student.Parent2 = "" THEN [student EXCEPT !.Parent2 = parentName]
    ELSE IF student.Parent3 = "" THEN [student EXCEPT !.Parent3 = parentName]
    ELSE student

addParent(student, parentName) ==
    IF student.Parent1 = "" THEN [student EXCEPT !.Parent1 = parentName]
    ELSE IF student.Parent2 = "" THEN [student EXCEPT !.Parent2 = parentName]
    ELSE IF student.Parent3 = "" THEN [student EXCEPT !.Parent3 = parentName]
    ELSE student

\* variant: a later record of a child overwrites the class of its student
addChildLastWins(roster, parent, child) ==
    IF child.Name \in DOMAIN roster
    THEN [roster EXCEPT ![child.Name] =
             addParent([roster[child.Name] EXCEPT !.Class = child.Class],
                       parent.Name)]
    ELSE roster @@ (child.Name :> addParent(child, parent.Name))

\* variant: a new student is entered under its class
addChildKeyedByClass(roster, parent, child) ==
    IF child.Name \in DOMAIN roster
    THEN [roster EXCEPT ![child.Name] = addParent(roster[child.Name], parent.Name)]
    ELSE IF child.Class \in DOMAIN roster
    THEN [roster EXCEPT ![child.Class] = addParent(child, parent.Name)]
    ELSE roster @@ (child.Class :> addParent(child, parent.Name))

\* the body of the inner loop of makeStudentRows, for one child of one parent
addChild(roster, parent, child) ==
    IF child.Name \in DOMAIN roster
    THEN [roster EXCEPT ![child.Name] = addParent(roster[child.Name], parent.Name)]
    ELSE roster @@ (child.Name :> addParent(child, parent.Name))

RECURSIVE addChildren(_, _, _)
addChildren(roster, parent, k) ==
    IF k = 0 THEN roster
    ELSE addChild(addChildren(roster, parent, k - 1), parent, parent.Children[k])

\* makeStudentRows on the records ps[1..n]
RECURSIVE makeStudentRowsUpTo(_, _)
makeStudentRowsUpTo(ps, n) ==
    IF n = 0 THEN EmptyRoster
    ELSE addChildren(makeStudentRowsUpTo(ps, n - 1), ps[n], Len(ps[n].Children))

makeStudentRows(ps) == makeStudentRowsUpTo(ps, Len(ps))

----------------------------------------------------------------------------
(* Attribution engine *)

\* the three student-name fields of a transaction, and the non-empty ones
Siblings(t) == <<t.FirstStudentName, t.SecondStudentName, t.ThirdStudentName>>

RECURSIVE NonEmpty(_)
NonEmpty(s) ==
    IF s = <<>> THEN <<>>
    ELSE IF Head(s) # "" THEN <<Head(s)>> \o NonEmpty(Tail(s))
    ELSE NonEmpty(Tail(s))

ValidSiblings(t) == NonEmpty(Siblings(t))

\* variant: the amount is always split three ways
DonationPerStudentByFields(t) == parseDollarAmount(t.Amount) \div Len(Siblings(t))

\* variant: every sibling is given the whole amount
DonationPerStudentWhole(t) == parseDollarAmount(t.Amount)

\* variant: the amount is split among the siblings that are in the roster
DonationPerStudentKnown(t) ==
    LET known == {i \in 1..Len(ValidSiblings(t)) :
                     ValidSiblings(t)[i] \in DOMAIN makeStudentRows(parents)}
    IN  IF known = {} THEN 0
        ELSE parseDollarAmount(t.Amount) \div Cardinality(known)

\* donationPerStudent of a transaction with at least one valid sibling
DonationPerStudent(t) == parseDollarAmount(t.Amount) \div Len(ValidSiblings(t))

\* variant: the total is set to the share
addToTotalAssign(student, share) ==
    [student EXCEPT !.TotalDonationAmount = share]

\* "Update the total donation amount"
addToTotal(student, share) ==
    [student EXCEPT !.TotalDonationAmount = @ + share]

\* variant: an empty slot is taken before the donor's own slot is looked for
resolveDonorEmptyFirst(student, donor, share) ==
    IF student.PrimaryDonor1 = ""
    THEN [student EXCEPT !.PrimaryDonor1 = donor,
                         !.PrimaryDonor1DonationAmount = share]
    ELSE IF student.PrimaryDonor2 = ""
    THEN [student EXCEPT !.PrimaryDonor2 = donor,
                         !.PrimaryDonor2DonationAmount = share]
    ELSE IF student.PrimaryDonor3 = ""
    THEN [student EXCEPT !.PrimaryDonor3 = donor,
                         !.PrimaryDonor3DonationAmount = share]
    ELSE IF student.PrimaryDonor1 = donor
    THEN [student EXCEPT !.PrimaryDonor1DonationAmount = @ + share]
    ELSE IF student.PrimaryDonor2 = donor
    THEN [student EXCEPT !.PrimaryDonor2DonationAmount = @ + share]
    ELSE IF student.PrimaryDonor3 = donor
    THEN [student EXCEPT !.PrimaryDonor3DonationAmount = @ + share]
    ELSE student

\* variant: only the first slot is looked at for the donor's name
resolveDonorFirstOnly(student, donor, share) ==
    IF student.PrimaryDonor1 = donor
    THEN [student EXCEPT !.PrimaryDonor1DonationAmount = @ + share]
    ELSE IF student.PrimaryDonor1 = ""
    THEN [student EXCEPT !.PrimaryDonor1 = donor,
                         !.PrimaryDonor1DonationAmount = share]
    ELSE IF student.PrimaryDonor2 = ""
    THEN [student EXCEPT !.PrimaryDonor2 = donor,
                         !.PrimaryDonor2DonationAmount = share]
    ELSE IF student.PrimaryDonor3 = ""
    THEN [student EXCEPT !.PrimaryDonor3 = donor,
                         !.PrimaryDonor3DonationAmount = share]
    ELSE student

\* variant: with no slot empty, the newest donor takes the third slot
resolveDonorEvict(student, donor, share) ==
    IF student.PrimaryDonor1 = donor
    THEN [student EXCEPT !.PrimaryDonor1DonationAmount = @ + share]
    ELSE IF student.PrimaryDonor2 = donor
    THEN [student EXCEPT !.PrimaryDonor2DonationAmount = @ + share]
    ELSE IF student.PrimaryDonor3 = donor
    THEN [student EXCEPT !.PrimaryDonor3DonationAmount = @ + share]
    ELSE IF student.PrimaryDonor1 = ""
    THEN [student EXCEPT !.PrimaryDonor1 = donor,
                         !.PrimaryDonor1DonationAmount = share]
    ELSE IF student.PrimaryDonor2 = ""
    THEN [student EXCEPT !.PrimaryDonor2 = donor,
                         !.PrimaryDonor2DonationAmount = share]
    ELSE [student EXCEPT !.PrimaryDonor3 = donor,
                         !.PrimaryDonor3DonationAmount = share]

\* variant: a new donor's share is written to the empty slot without the name
resolveDonorAmountOnly(student, donor, share) ==
    IF student.PrimaryDonor1 = donor
    THEN [student EXCEPT !.PrimaryDonor1DonationAmount = @ + share]
    ELSE IF student.PrimaryDonor2 = donor
    THEN [student EXCEPT !.PrimaryDonor2DonationAmount = @ + share]
    ELSE IF student.PrimaryDonor3 = donor
    THEN [student EXCEPT !.PrimaryDonor3DonationAmount = @ + share]
    ELSE IF student.PrimaryDonor1 = ""
    THEN [student EXCEPT !.PrimaryDonor1DonationAmount = share]
    ELSE IF student.PrimaryDonor2 = ""
    THEN [student EXCEPT !.PrimaryDonor2DonationAmount = share]
    ELSE IF student.PrimaryDonor3 = ""
    THEN [student EXCEPT !.PrimaryDonor3DonationAmount = share]
    ELSE student

\* variant: the empty slots are taken from the third to the first
resolveDonorLastFirst(student, donor, share) ==
    IF student.PrimaryDonor1 = donor
    THEN [student EXCEPT !.PrimaryDonor1DonationAmount = @ + share]
    ELSE IF student.PrimaryDonor2 = donor
    THEN [student EXCEPT !.PrimaryDonor2DonationAmount = @ + share]
    ELSE IF student.PrimaryDonor3 = donor
    THEN [student EXCEPT !.PrimaryDonor3DonationAmount = @ + share]
    ELSE IF student.PrimaryDonor3 = ""
    THEN [student EXCEPT !.PrimaryDonor3 = donor,
                         !.PrimaryDonor3DonationAmount = share]
    ELSE IF student.PrimaryDonor2 = ""
    THEN [student EXCEPT !.PrimaryDonor2 = donor,
                         !.PrimaryDonor2DonationAmount = share]
    ELSE IF student.PrimaryDonor1 = ""
    THEN [student EXCEPT !.PrimaryDonor1 = donor,
                         !.PrimaryDonor1DonationAmount = share]
    ELSE student

\* variant: a new donor takes slot 1 and the donors before move one slot on
resolveDonorNewestFirst(student, donor, share) ==
    IF student.PrimaryDonor1 = donor
    THEN [student EXCEPT !.PrimaryDonor1DonationAmount = @ + share]
    ELSE IF student.PrimaryDonor2 = donor
    THEN [student EXCEPT !.PrimaryDonor2DonationAmount = @ + share]
    ELSE IF student.PrimaryDonor3 = donor
    THEN [student EXCEPT !.PrimaryDonor3DonationAmount = @ + share]
    ELSE IF student.PrimaryDonor3 = ""
    THEN [student EXCEPT
             !.PrimaryDonor1 = donor,
             !.PrimaryDonor1DonationAmount = share,
             !.PrimaryDonor2 = student.PrimaryDonor1,
             !.PrimaryDonor2DonationAmount = student.PrimaryDonor1DonationAmount,
             !.PrimaryDonor3 = student.PrimaryDonor2,
             !.PrimaryDonor3DonationAmount = student.PrimaryDonor2DonationAmount]
    ELSE student

\* the switch: "Update the primary donors and their donation amounts"
resolveDonor(student, donor, share) ==
    IF student.PrimaryDonor1 = donor
    THEN [student EXCEPT !.PrimaryDonor1DonationAmount = @ + share]
    ELSE IF student.PrimaryDonor2 = donor
    THEN [student EXCEPT !.PrimaryDonor2DonationAmount = @ + share]
    ELSE IF student.PrimaryDonor3 = donor
    THEN [student EXCEPT !.PrimaryDonor3DonationAmount = @ + share]
    ELSE IF student.PrimaryDonor1 = ""
    THEN [student EXCEPT !.PrimaryDonor1 = donor,
                         !.PrimaryDonor1DonationAmount = share]
    ELSE IF student.PrimaryDonor2 = ""
    THEN [student EXCEPT !.PrimaryDonor2 = donor,
                         !.PrimaryDonor2DonationAmount = share]
    ELSE IF student.PrimaryDonor3 = ""
    THEN [student EXCEPT !.PrimaryDonor3 = donor,
                         !.PrimaryDonor3DonationAmount = share]
    ELSE student

\* variant: the count is raised by one at every pass
countDonorsIncrement(student) ==
    [student EXCEPT !.PrimaryDonorsPerStudent = @ + 1]

\* "Update the number of primary donors"
countDonors(student) ==
    [student EXCEPT !.PrimaryDonorsPerStudent =
        (IF student.PrimaryDonor1 # "" THEN 1 ELSE 0)
      + (IF student.PrimaryDonor2 # "" THEN 1 ELSE 0)
      + (IF student.PrimaryDonor3 # "" THEN 1 ELSE 0)]

\* variant: the donor is recorded as a caregiver of the student too
updateStudentAsCaregiver(student, donor, share) ==
    countDonors(resolveDonor(addToTotal(addParent(student, donor), share),
                             donor, share))

\* variant: a share of 0 is not attributed
updateStudentSkipZero(student, donor, share) ==
    IF share = 0 THEN student
    ELSE countDonors(resolveDonor(addToTotal(student, share), donor, share))

\* the body of the inner loop for a sibling that exists in the roster
updateStudent(student, donor, share) ==
    countDonors(resolveDonor(addToTotal(student, share), donor, share))

\* variant: a sibling that is not in the roster is given an entry
assignSiblingCreate(roster, sibling, donor, share) ==
    IF sibling \notin DOMAIN roster
    THEN roster @@ (sibling :> updateStudent(ZeroStudent, donor, share))
    ELSE [roster EXCEPT ![sibling] = updateStudent(roster[sibling], donor, share)]

\* the body of the inner loop for one valid sibling
assignSibling(roster, sibling, donor, share) ==
    IF sibling \notin DOMAIN roster
    THEN roster
    ELSE [roster EXCEPT ![sibling] = updateStudent(roster[sibling], donor, share)]

\* the inner loop over the first k valid siblings of t
RECURSIVE assignSiblings(_, _, _)
assignSiblings(roster, t, k) ==
    IF k = 0 THEN roster
    ELSE assignSibling(assignSiblings(roster, t, k - 1), ValidSiblings(t)[k],
                       t.Name, DonationPerStudent(t))

\* one pass of the outer loop
assignTxn(roster, t) ==
    IF ValidSiblings(t) = <<>> THEN roster
    ELSE assignSiblings(roster, t, Len(ValidSiblings(t)))

\* assignDonationsToStudents on the transactions ts[1..n]
RECURSIVE assignDonationsUpTo(_, _, _)
assignDonationsUpTo(roster, ts, n) ==
    IF n = 0 THEN roster
    ELSE assignTxn(assignDonationsUpTo(roster, ts, n - 1), ts[n])

assignDonationsToStudents(roster, ts) == assignDonationsUpTo(roster, ts, Len(ts))

----------------------------------------------------------------------------
(* Readers of the transaction sheet *)

\* the DonationTransation readTransactions makes of a sheet row
rowToTxn(row) ==
    [Date |-> row.c0, Name |-> row.c1, Amount |-> ReplaceAll(row.c2, " "),
     FirstStudentName |-> row.c6, FirstStudentClass |-> row.c7,
     SecondStudentName |-> row.c8, SecondStudentClass |-> row.c9,
     ThirdStudentName |-> row.c10, ThirdStudentClass |-> row.c11,
     AccountNumber |-> row.c12]

\* the DonationTransation readTransactionsByNonCareGivers makes of a sheet row
rowToNonCareGiverTxn(row) ==
    [NoTxn EXCEPT !.Date = row.c0, !.Name = row.c1,
                  !.Amount = ReplaceAll(row.c2, " "),
                  !.AccountNumber = row.c12]

\* variant: every row is ignored
hasStudentAlways(row) == TRUE

\* variant: a row is ignored for the student of its first field only
hasStudentFirst(row) == row.c6 # ""

\* "Ignore transactions with students associated with them"
hasStudent(row) == row.c6 # "" \/ row.c8 # "" \/ row.c10 # ""

\* rows[1] and rows[2] are the header and the total row (rowIndex 0 and 1)
RECURSIVE readTransactionsFrom(_, _)
readTransactionsFrom(sheet, i) ==
    IF i > Len(sheet) THEN <<>>
    ELSE <<rowToTxn(sheet[i])>> \o readTransactionsFrom(sheet, i + 1)

readTransactions(sheet) == readTransactionsFrom(sheet, 3)

RECURSIVE readNonCareGiversFrom(_, _)
readNonCareGiversFrom(sheet, i) ==
    IF i > Len(sheet) THEN <<>>
    ELSE IF hasStudent(sheet[i]) THEN readNonCareGiversFrom(sheet, i + 1)
    ELSE <<rowToNonCareGiverTxn(sheet[i])>> \o readNonCareGiversFrom(sheet, i + 1)

readTransactionsByNonCareGivers(sheet) == readNonCareGiversFrom(sheet, 3)

----------------------------------------------------------------------------
(* The engine in the other two programs *)

\* variant: a copy that does not recompute the number of primary donors
updateStudentUncounted(student, donor, share) ==
    resolveDonor(addToTotal(student, share), donor, share)

\* parseDollarAmount, package main of the command line program
parseDollarAmountOfMain(text) ==
    LET cleanedAmount == TrimPrefix(text, "$")
        parsed == ParseFloat(cleanedAmount)
    IN  IF parsed.ok THEN parsed.value ELSE 0

\* addParent, package main of the command line program
addParentOfMain(student, parentName) ==
    CASE student.Parent1 = "" -> [student EXCEPT !.Parent1 = parentName]
      [] student.Parent1 # "" /\ student.Parent2 = "" ->
             [student EXCEPT !.Parent2 = parentName]
      [] student.Parent1 # "" /\ student.Parent2 # "" /\ student.Parent3 = "" ->
             [student EXCEPT !.Parent3 = parentName]
      [] OTHER -> student

\* makeStudentRows, package main of the command line program: the passes for the children 1..k of record j, after
\* the records 1..j-1
RECURSIVE makeStudentRowsOfMainUpTo(_, _, _)
makeStudentRowsOfMainUpTo(ps, j, k) ==
    IF j = 0 THEN EmptyRoster
    ELSE IF k = 0
    THEN makeStudentRowsOfMainUpTo(ps, j - 1,
                                IF j = 1 THEN 0 ELSE Len(ps[j - 1].Children))
    ELSE LET roster == makeStudentRowsOfMainUpTo(ps, j, k - 1)
             child == ps[j].Children[k]
         IN  IF child.Name \in DOMAIN roster
             THEN [roster EXCEPT ![child.Name] = addParentOfMain(@, ps[j].Name)]
             ELSE roster @@ (child.Name :> addParentOfMain(child, ps[j].Name))

makeStudentRowsOfMain(ps) ==
    IF ps = <<>> THEN EmptyRoster
    ELSE makeStudentRowsOfMainUpTo(ps, Len(ps), Len(ps[Len(ps)].Children))

\* the body of the inner loop of assignDonationsToStudents, package main of the command line program
updateStudentOfMain(student, donor, share) ==
    LET total == [student EXCEPT !.TotalDonationAmount = @ + share]
        donors ==
            CASE total.PrimaryDonor1 = donor ->
                     [total EXCEPT !.PrimaryDonor1DonationAmount = @ + share]
              [] total.PrimaryDonor1 # donor /\ total.PrimaryDonor2 = donor ->
                     [total EXCEPT !.PrimaryDonor2DonationAmount = @ + share]
              [] donor \notin {total.PrimaryDonor1, total.PrimaryDonor2}
                     /\ total.PrimaryDonor3 = donor ->
                     [total EXCEPT !.PrimaryDonor3DonationAmount = @ + share]
              [] donor \notin {total.PrimaryDonor1, total.PrimaryDonor2,
                               total.PrimaryDonor3}
                     /\ total.PrimaryDonor1 = "" ->
                     [total EXCEPT !.PrimaryDonor1 = donor,
                                   !.PrimaryDonor1DonationAmount = share]
              [] donor \notin {total.PrimaryDonor1, total.PrimaryDonor2,
                               total.PrimaryDonor3}
                     /\ total.PrimaryDonor1 # "" /\ total.PrimaryDonor2 = "" ->
                     [total EXCEPT !.PrimaryDonor2 = donor,
                                   !.PrimaryDonor2DonationAmount = share]
              [] donor \notin {total.PrimaryDonor1, total.PrimaryDonor2,
                               total.PrimaryDonor3}
                     /\ total.PrimaryDonor1 # "" /\ total.PrimaryDonor2 # ""
                     /\ total.PrimaryDonor3 = "" ->
                     [total EXCEPT !.PrimaryDonor3 = donor,
                                   !.PrimaryDonor3DonationAmount = share]
              [] OTHER -> total
        filled == {i \in 1..3 :
                      <<donors.PrimaryDonor1, donors.PrimaryDonor2,
                        donors.PrimaryDonor3>>[i] # ""}
    IN  [donors EXCEPT !.PrimaryDonorsPerStudent = Cardinality(filled)]

\* assignDonationsToStudents, package main of the command line program: the transactions 1..j and the valid
\* siblings 1..k of the next
RECURSIVE assignDonationsOfMainUpTo(_, _, _, _)
assignDonationsOfMainUpTo(roster, ts, j, k) ==
    IF k = 0
    THEN IF j = 0 THEN roster
         ELSE assignDonationsOfMainUpTo(roster, ts, j - 1,
                  Len(SelectSeq(Siblings(ts[j]), LAMBDA n : n # "")))
    ELSE LET valid == SelectSeq(Siblings(ts[j + 1]), LAMBDA n : n # "")
             share == parseDollarAmountOfMain(ts[j + 1].Amount) \div Len(valid)
             sofar == assignDonationsOfMainUpTo(roster, ts, j, k - 1)
         IN  IF valid[k] \in DOMAIN sofar
             THEN [sofar EXCEPT ![valid[k]] =
                      updateStudentOfMain(@, ts[j + 1].Name, share)]
             ELSE sofar

assignDonationsToStudentsOfMain(roster, ts) ==
    assignDonationsOfMainUpTo(roster, ts, Len(ts), 0)

\* parseDollarAmount, the program with internal/types
parseDollarAmountOfTypes(text) ==
    LET cleanedAmount == TrimPrefix(text, "$")
        parsed == ParseFloat(cleanedAmount)
    IN  IF parsed.ok THEN parsed.value ELSE 0

\* addParent, the program with internal/types
addParentOfTypes(student, parentName) ==
    CASE student.Parent1 = "" -> [student EXCEPT !.Parent1 = parentName]
      [] student.Parent1 # "" /\ student.Parent2 = "" ->
             [student EXCEPT !.Parent2 = parentName]
      [] student.Parent1 # "" /\ student.Parent2 # "" /\ student.Parent3 = "" ->
             [student EXCEPT !.Parent3 = parentName]
      [] OTHER -> student

\* makeStudentRows, the program with internal/types: the passes for the children 1..k of record j, after
\* the records 1..j-1
RECURSIVE makeStudentRowsOfTypesUpTo(_, _, _)
makeStudentRowsOfTypesUpTo(ps, j, k) ==
    IF j = 0 THEN EmptyRoster
    ELSE IF k = 0
    THEN makeStudentRowsOfTypesUpTo(ps, j - 1,
                                IF j = 1 THEN 0 ELSE Len(ps[j - 1].Children))
    ELSE LET roster == makeStudentRowsOfTypesUpTo(ps, j, k - 1)
             child == ps[j].Children[k]
         IN  IF child.Name \in DOMAIN roster
             THEN [roster EXCEPT ![child.Name] = addParentOfTypes(@, ps[j].Name)]
             ELSE roster @@ (child.Name :> addParentOfTypes(child, ps[j].Name))

makeStudentRowsOfTypes(ps) ==
    IF ps = <<>> THEN EmptyRoster
    ELSE makeStudentRowsOfTypesUpTo(ps, Len(ps), Len(ps[Len(ps)].Children))

\* the body of the inner loop of assignDonationsToStudents, the program with internal/types
updateStudentOfTypes(student, donor, share) ==
    LET total == [student EXCEPT !.TotalDonationAmount = @ + share]
        donors ==
            CASE total.PrimaryDonor1 = donor ->
                     [total EXCEPT !.PrimaryDonor1DonationAmount = @ + share]
              [] total.PrimaryDonor1 # donor /\ total.PrimaryDonor2 = donor ->
                     [total EXCEPT !.PrimaryDonor2DonationAmount = @ + share]
              [] donor \notin {total.PrimaryDonor1, total.PrimaryDonor2}
                     /\ total.PrimaryDonor3 = donor ->
                     [total EXCEPT !.PrimaryDonor3DonationAmount = @ + share]
              [] donor \notin {total.PrimaryDonor1, total.PrimaryDonor2,
                               total.PrimaryDonor3}
                     /\ total.PrimaryDonor1 = "" ->
                     [total EXCEPT !.PrimaryDonor1 = donor,
                                   !.PrimaryDonor1DonationAmount = share]
              [] donor \notin {total.PrimaryDonor1, total.PrimaryDonor2,
                               total.PrimaryDonor3}
                     /\ total.PrimaryDonor1 # "" /\ total.PrimaryDonor2 = "" ->
                     [total EXCEPT !.PrimaryDonor2 = donor,
                                   !.PrimaryDonor2DonationAmount = share]
              [] donor \notin {total.PrimaryDonor1, total.PrimaryDonor2,
                               total.PrimaryDonor3}
                     /\ total.PrimaryDonor1 # "" /\ total.PrimaryDonor2 # ""
                     /\ total.PrimaryDonor3 = "" ->
                     [total EXCEPT !.PrimaryDonor3 = donor,
                                   !.PrimaryDonor3DonationAmount = share]
              [] OTHER -> total
        filled == {i \in 1..3 :
                      <<donors.PrimaryDonor1, donors.PrimaryDonor2,
                        donors.PrimaryDonor3>>[i] # ""}
    IN  [donors EXCEPT !.PrimaryDonorsPerStudent = Cardinality(filled)]

\* assignDonationsToStudents, the program with internal/types: the transactions 1..j and the valid
\* siblings 1..k of the next
RECURSIVE assignDonationsOfTypesUpTo(_, _, _, _)
assignDonationsOfTypesUpTo(roster, ts, j, k) ==
    IF k = 0
    THEN IF j = 0 THEN roster
         ELSE assignDonationsOfTypesUpTo(roster, ts, j - 1,
                  Len(SelectSeq(Siblings(ts[j]), LAMBDA n : n # "")))
    ELSE LET valid == SelectSeq(Siblings(ts[j + 1]), LAMBDA n : n # "")
             share == parseDollarAmountOfTypes(ts[j + 1].Amount) \div Len(valid)
             sofar == assignDonationsOfTypesUpTo(roster, ts, j, k - 1)
         IN  IF valid[k] \in DOMAIN sofar
             THEN [sofar EXCEPT ![valid[k]] =
                      updateStudentOfTypes(@, ts[j + 1].Name, share)]
             ELSE sofar

assignDonationsToStudentsOfTypes(roster, ts) ==
    assignDonationsOfTypesUpTo(roster, ts, Len(ts), 0)

----------------------------------------------------------------------------
(* The "Donations By Student" sheet of the report *)

\* donationsByStudentHeader
donationsByStudentHeader ==
    <<"Student", "Class", "Care Giver 1", "Care Giver 2", "Care Giver 3",
      "Primary Donor 1", "Primary Donor 2", "Primary Donor 3",
      "Primary Donors Per Student", "Primary Donor 1 Donation Amount",
      "Primary Donor 2 Donation Amount", "Primary Donor 3 Donation Amount",
      "Total Donation Amount">>

\* the cells A1 and B1 where the sheet has them
LastUpdated == <<"Last Updated:", "12/12/2024">>

\* the row of data made of a student
studentCells(student) ==
    <<student.Name, student.Class, student.Parent1, student.Parent2,
      student.Parent3, student.PrimaryDonor1, student.PrimaryDonor2,
      student.PrimaryDonor3, student.PrimaryDonorsPerStudent,
      student.PrimaryDonor1DonationAmount, student.PrimaryDonor2DonationAmount,
      student.PrimaryDonor3DonationAmount, student.TotalDonationAmount>>

\* f.SetSheetRow(sheetName, "A<i>", &cells)
SetSheetRow(sheet, i, cells) ==
    [j \in DOMAIN sheet \cup {i} |-> IF j = i THEN cells ELSE sheet[j]]

\* "for i := first; i < end; i++ { SetSheetRow(.., A<i>, &data[i-offset]) }",
\* from i on; d[k + 1] is the element data[k] of the slice
RECURSIVE setSheetRows(_, _, _, _, _)
setSheetRows(sheet, d, i, end, offset) ==
    IF i >= end THEN sheet
    ELSE setSheetRows(SetSheetRow(sheet, i, d[i - offset + 1]), d, i + 1, end,
                      offset)

\* the sheet when the rows of data are written, in the three programs:
\* run() of the cloud function, GenerateDonationsByStudentReport of package
\* main, GenerateDonationsByStudentReport of the program with internal/types
sheetOfRun == SetSheetRow(SetSheetRow(NoRows, 1, LastUpdated), 2, donationsByStudentHeader)
sheetOfMain == SetSheetRow(NoRows, 1, donationsByStudentHeader)
sheetOfTypes == SetSheetRow(SetSheetRow(NoRows, 1, LastUpdated), 2, donationsByStudentHeader)

----------------------------------------------------------------------------
(* Inputs *)

\* sequences over S of length lo..hi
SeqsOf(S, lo, hi) == UNION {[1..n -> S] : n \in lo..hi}

Alice == NewStudent("Alice", "K")
AliceLater == NewStudent("Alice", "1")
Bob == NewStudent("Bob", "2")
Cy == NewStudent("Cy", "2")

\* the records getParents can return: one to three children each
ParentNames == {"Mom", "Dad", "Gran"}
ChildLists ==
    {<<Alice>>, <<AliceLater, Bob>>, <<Alice, Alice>>,
     <<Bob, AliceLater, Alice>>}
ParentRecords == {NewParent(n, cs) : n \in ParentNames, cs \in ChildLists}

\* the rosters the attribution engine is started on
ThreeStudents == <<NewParent("Mom", <<Alice, Bob, Cy>>)>>
OnlyAlice == <<NewParent("Mom", <<Alice>>), NewParent("Dad", <<AliceLater>>)>>

\* amount cells
Dollars10 == <<"$", "1", "0", ".", "0", "0">>
Dollars12 == <<"$", "1", "2", ".", "0", "0">>
Dollars20 == <<"$", "2", "0", ".", "0", "0">>
NotAvailable == <<"N", "/", "A">>
SampleTexts ==
    {<<"$", "1", ",", "2", "3", "4", ".", "5", "6">>,
     <<"$", "1", "2", "3", "4", ".", "5", "6">>,
     <<"1", "0", ".", "0", "0">>,
     <<"$", "-", "5", ".", "0", "0">>,
     <<"-", "$", "5", ".", "0", "0">>,
     <<"+", "7">>,
     <<"$", "$", "1", "0", ".", "0", "0">>,
     Dollars10, Dollars12, NotAvailable}
TextChars == {"$", ",", ".", "1", "5"}
AmountTexts == SampleTexts \cup SeqsOf(TextChars, 0, MaxTextLen)

\* the transactions the engine is given
DonorNames == {"Mom", "Dad", "Aunt"}
TxnAmounts == {Dollars10, NotAvailable}
TxnStudents ==
    {<<"", "", "">>, <<"Alice", "", "">>, <<"", "", "Bob">>,
     <<"Alice", "Bob", "">>, <<"Bob", "Alice", "Cy">>, <<"Alice", "", "Alice">>}
NewTxn(d, a, s) ==
    [NoTxn EXCEPT !.Date = "12/12/2024", !.Name = d, !.Amount = a,
                  !.FirstStudentName = s[1], !.SecondStudentName = s[2],
                  !.ThirdStudentName = s[3], !.AccountNumber = "A1"]
Txns == {NewTxn(d, a, s) : d \in DonorNames, a \in TxnAmounts, s \in TxnStudents}

\* the transactions the engine has taken before the ones the model draws
ToAlice(d) == NewTxn(d, Dollars12, <<"Alice", "", "">>)
TwoDonors == <<ToAlice("Mom"), ToAlice("Dad")>>
ThreeDonors == <<ToAlice("Mom"), ToAlice("Dad"), ToAlice("Gran")>>

\* where the engine is started: the parent records and the transactions taken
EngineStarts ==
    {<<ThreeStudents, <<>>>>, <<ThreeStudents, TwoDonors>>,
     <<ThreeStudents, ThreeDonors>>, <<OnlyAlice, <<>>>>}

\* the lists of transactions the engine is given whole: after the ones of a
\* start, transactions with an amount that does not parse, with a student
\* that is in no roster (Dee), with no student, from a fourth donor (Aunt)
ListStudents == {<<"Alice", "", "">>, <<"Bob", "Dee", "Alice">>}
ListTxns ==
    {NewTxn("Aunt", a, s) : a \in TxnAmounts, s \in ListStudents}
    \cup {NewTxn("Mom", Dollars10, <<"", "", "">>),
          NewTxn("Mom", NotAvailable, <<"Alice", "", "">>)}

\* the rosters a report is written of
ReportStarts ==
    EngineStarts \cup {<<<<>>, <<>>>>, <<<<NewParent("Mom", <<Alice, Bob>>)>>, <<>>>>}

\* the rows of a transaction sheet
NewRow(date, name, amt, s1, s2, s3) ==
    [c0 |-> date, c1 |-> name, c2 |-> amt, c6 |-> s1, c7 |-> "", c8 |-> s2,
     c9 |-> "", c10 |-> s3, c11 |-> "", c12 |-> "A1"]
HeaderRow == NewRow("Date", "Name", <<>>, "Student 1", "Student 2", "Student 3")
TotalRow == NewRow("Total", "", Dollars12, "", "", "")
Spaced12 == <<"$", " ", "1", "2", ".", "0", "0">>
\* Mom's twenty dollars for Alice and Bob
MomTwenty == NewRow("12/14/2024", "Mom", Dollars20, "Alice", "Bob", "")
SheetStudents ==
    {<<"", "", "">>, <<"Alice", "", "">>, <<"Alice", "Bob", "">>,
     <<"", "", "Bob">>}
SheetRows ==
    {NewRow(d, n, a, s[1], s[2], s[3]) :
        d \in {"12/12/2024"}, n \in {"Mom", "Gran"},
        a \in {Spaced12}, s \in SheetStudents}
    \cup {NewRow("12/13/2024", "Gran", NotAvailable, "Alice", "", ""),
          MomTwenty}
Sheets == {<<HeaderRow, TotalRow>> \o rs : rs \in SeqsOf(SheetRows, 0, MaxRows)}
SheetParents ==
    {<<NewParent("Mom", <<Alice, Bob>>)>>, <<NewParent("Mom", <<Alice>>)>>}

----------------------------------------------------------------------------
(* The bucket and the calls of run() *)

\* getParents: fileName
parentsFile == "parents-kids-classes.xlsx"
\* the object that triggered the function: data.Name
txnsFile == "2024-12-12-Report.xlsx"
\* Sprintf("donations_by_student-%s-%s-%s.xlsx", ...) of the three parts of
\* strings.Split(txnsFile, "-"), the third of which is "12-Report.xlsx"
outputFile == "donations_by_student-2024-12-12-Report.xlsx.xlsx"

\* the bucket when the function is triggered
TriggerBucket == {parentsFile, txnsFile}

\* the steps of run() in the order of the code, each named by its line, and
\* what run() does with an error of the step: "return" prints it and
\* returns, "print" prints it and goes on, "none" is a step without an error
RunSteps ==
    <<[at |-> "157 NewSheet", onError |-> "return"],
      [at |-> "165 DeleteSheet", onError |-> "return"],
      [at |-> "187 NewStyle", onError |-> "return"],
      [at |-> "207 SetCellStyle", onError |-> "return"],
      [at |-> "214 NewStyle", onError |-> "return"],
      [at |-> "222 SetColStyle", onError |-> "return"],
      [at |-> "228 SetCellValue", onError |-> "print"],
      [at |-> "234 NewStyle", onError |-> "print"],
      [at |-> "245 SetCellStyle", onError |-> "print"],
      [at |-> "250 SetSheetRow", onError |-> "return"],
      [at |-> "255 SetCellValue", onError |-> "print"],
      [at |-> "260 SetColWidth", onError |-> "print"],
      [at |-> "264 makeStudentRows", onError |-> "return"],
      [at |-> "270 readTransactions", onError |-> "return"],
      [at |-> "276 assignDonationsToStudents", onError |-> "none"],
      [at |-> "283 data", onError |-> "none"],
      [at |-> "302 SetSheetRow", onError |-> "print"],
      [at |-> "309 xlsAdjustColumnsWidth", onError |-> "return"],
      [at |-> "318 NewSheet", onError |-> "return"],
      [at |-> "332 SetSheetRow", onError |-> "return"],
      [at |-> "338 readTransactionsByNonCareGivers", onError |-> "return"],
      [at |-> "355 SetSheetRow", onError |-> "print"],
      [at |-> "366 xlsAdjustColumnsWidth", onError |-> "return"],
      [at |-> "372 writeBucketObject", onError |-> "return"],
      [at |-> "380 deleteBucketObject", onError |-> "print"]>>

StepOf(p) == CHOOSE i \in 1..Len(RunSteps) : RunSteps[i].at = p
\* the step after p; after the last, run() returns
After(p) ==
    IF StepOf(p) = Len(RunSteps) THEN "returned" ELSE RunSteps[StepOf(p) + 1].at
OnError(p) == RunSteps[StepOf(p)].onError

\* the steps that have an action of their own
OwnSteps ==
    {"264 makeStudentRows", "270 readTransactions",
     "276 assignDonationsToStudents", "283 data", "302 SetSheetRow",
     "338 readTransactionsByNonCareGivers", "372 writeBucketObject",
     "380 deleteBucketObject"}
\* the calls on the file f, which change it or return an error
SheetCalls == {RunSteps[i].at : i \in 1..Len(RunSteps)} \ OwnSteps

\* f.SetCellValue(sheetName, <column j of row i>, v)
SetCellValue(sheet, i, j, v) ==
    LET old == IF i \in DOMAIN sheet THEN sheet[i] ELSE <<>>
        width == IF Len(old) > j THEN Len(old) ELSE j
    IN  SetSheetRow(sheet, i,
            [k \in 1..width |->
                IF k = j THEN v ELSE IF k <= Len(old) THEN old[k] ELSE ""])

\* what the call at p writes into the sheet "Donations By Student"
SheetAfter(p, sheet) ==
    CASE p = "228 SetCellValue" -> SetCellValue(sheet, 1, 1, LastUpdated[1])
      [] p = "250 SetSheetRow" -> SetSheetRow(sheet, 2, donationsByStudentHeader)
      [] p = "255 SetCellValue" -> SetCellValue(sheet, 1, 2, LastUpdated[2])
      [] OTHER -> sheet

\* the transaction sheets of a run
RunRows == {MomTwenty, NewRow("12/12/2024", "Gran", Spaced12, "", "", "")}
RunSheets == {<<HeaderRow, TotalRow>> \o rs : rs \in SeqsOf(RunRows, 0, 1)}

----------------------------------------------------------------------------
(* Initial states *)

\* a call of makeStudentRows on the records getParents returned
InitRoster ==
    /\ pc = "makeStudentRows"
    /\ parents \in SeqsOf(ParentRecords, 0, MaxParents)
    /\ pi = 1 /\ ci = 1
    /\ students = EmptyRoster
    /\ rows = <<>> /\ donations = <<>> /\ drawn = 0
    /\ ti = 0 /\ txn = NoTxn /\ validSiblings = <<>> /\ sib = 1
    /\ donationPerStudent = 0
    /\ before = EmptyRoster
    /\ nonCareGiverDonations = <<>>
    /\ amount = <<>> /\ value = 0
    /\ data = <<>> /\ report = NoRows
    /\ bucket = TriggerBucket /\ errors = {}

\* assignDonationsToStudents, on a roster makeStudentRows returned, has taken
\* the transactions of donations; the model draws the rest of the list, one
\* transaction each time the outer loop takes the next
Init ==
    /\ pc = "assign"
    /\ \E start \in EngineStarts : parents = start[1] /\ donations = start[2]
    /\ pi = Len(parents) + 1 /\ ci = 1
    /\ students = assignDonationsToStudents(makeStudentRows(parents), donations)
    /\ rows = <<>> /\ drawn = 0
    /\ ti = Len(donations) /\ txn = NoTxn /\ validSiblings = <<>> /\ sib = 1
    /\ donationPerStudent = 0
    /\ before = students
    /\ nonCareGiverDonations = <<>>
    /\ amount = <<>> /\ value = 0
    /\ data = <<>> /\ report = NoRows
    /\ bucket = TriggerBucket /\ errors = {}

\* a call of assignDonationsToStudents on a roster makeStudentRows returned
\* and a list of transactions
InitList ==
    /\ pc = "assign"
    /\ \E start \in EngineStarts : \E rest \in SeqsOf(ListTxns, 0, MaxTxns) :
           parents = start[1] /\ donations = start[2] \o rest
    /\ pi = Len(parents) + 1 /\ ci = 1
    /\ students = makeStudentRows(parents)
    /\ rows = <<>> /\ drawn = 0
    /\ ti = 0 /\ txn = NoTxn /\ validSiblings = <<>> /\ sib = 1
    /\ donationPerStudent = 0
    /\ before = students
    /\ nonCareGiverDonations = <<>>
    /\ amount = <<>> /\ value = 0
    /\ data = <<>> /\ report = NoRows
    /\ bucket = TriggerBucket /\ errors = {}

\* one of the three programs has attributed the donations and is about to
\* make the rows of data
InitReport ==
    /\ \/ pc = "run" /\ report = sheetOfRun
       \/ pc = "main" /\ report = sheetOfMain
       \/ pc = "types" /\ report = sheetOfTypes
    /\ \E start \in ReportStarts : parents = start[1] /\ donations = start[2]
    /\ pi = Len(parents) + 1 /\ ci = 1
    /\ students = assignDonationsToStudents(makeStudentRows(parents), donations)
    /\ rows = <<>> /\ drawn = 0
    /\ ti = Len(donations) /\ txn = NoTxn /\ validSiblings = <<>> /\ sib = 1
    /\ donationPerStudent = 0
    /\ before = students
    /\ nonCareGiverDonations = <<>>
    /\ amount = <<>> /\ value = 0
    /\ data = <<>>
    /\ bucket = (IF pc = "run" THEN TriggerBucket ELSE {}) /\ errors = {}

\* run() on a roster sheet and a transaction sheet
InitSheet ==
    /\ pc = "makeStudentRows"
    /\ parents \in SheetParents
    /\ pi = 1 /\ ci = 1
    /\ students = EmptyRoster
    /\ rows \in Sheets
    /\ donations = <<>> /\ drawn = 0
    /\ ti = 0 /\ txn = NoTxn /\ validSiblings = <<>> /\ sib = 1
    /\ donationPerStudent = 0
    /\ before = EmptyRoster
    /\ nonCareGiverDonations = <<>>
    /\ amount = <<>> /\ value = 0
    /\ data = <<>> /\ report = NoRows
    /\ bucket = TriggerBucket /\ errors = {}

\* a call of parseDollarAmount
InitParse ==
    /\ pc = "parse"
    /\ amount \in AmountTexts
    /\ value = 0
    /\ parents = <<>> /\ pi = 1 /\ ci = 1
    /\ students = EmptyRoster
    /\ rows = <<>> /\ donations = <<>> /\ drawn = 0
    /\ ti = 0 /\ txn = NoTxn /\ validSiblings = <<>> /\ sib = 1
    /\ donationPerStudent = 0
    /\ before = EmptyRoster
    /\ nonCareGiverDonations = <<>>
    /\ data = <<>> /\ report = NoRows
    /\ bucket = TriggerBucket /\ errors = {}

----------------------------------------------------------------------------
(* Actions *)

\* one pass of the inner loop of makeStudentRows
MakeStudentRowsStep ==
    /\ pc = "makeStudentRows"
    /\ pi <= Len(parents)
    /\ students' = addChild(students, parents[pi], parents[pi].Children[ci])
    /\ IF ci < Len(parents[pi].Children)
       THEN ci' = ci + 1 /\ pi' = pi
       ELSE ci' = 1 /\ pi' = pi + 1
    /\ UNCHANGED <<bucket, errors, data, report, pc, parents, rows, donations, drawn, ti, txn,
                   validSiblings, sib, donationPerStudent, before,
                   nonCareGiverDonations, amount, value>>

\* makeStudentRows returns the roster
MakeStudentRowsReturn ==
    /\ pc = "makeStudentRows"
    /\ pi > Len(parents)
    /\ pc' = "readTransactions"
    /\ UNCHANGED <<bucket, errors, data, report, parents, pi, ci, students, rows, donations, drawn, ti,
                   txn,
                   validSiblings, sib, donationPerStudent, before,
                   nonCareGiverDonations, amount, value>>

\* readTransactions
ReadTransactions ==
    /\ pc = "readTransactions"
    /\ donations' = readTransactions(rows)
    /\ before' = students
    /\ pc' = "assign"
    /\ UNCHANGED <<bucket, errors, data, report, parents, pi, ci, students, rows, drawn, ti, txn,
                   validSiblings, sib, donationPerStudent,
                   nonCareGiverDonations, amount, value>>

\* the outer loop takes t, which has no valid sibling: continue
SkipTxn(t) ==
    /\ pc = "assign"
    /\ ValidSiblings(t) = <<>>
    /\ txn' = t
    /\ validSiblings' = <<>>
    /\ ti' = ti + 1
    /\ before' = students
    /\ UNCHANGED <<bucket, errors, data, report, pc, parents, pi, ci, students, rows, sib,
                   donationPerStudent, nonCareGiverDonations, amount, value>>

\* the outer loop takes t, which has valid siblings
TakeTxn(t) ==
    /\ pc = "assign"
    /\ ValidSiblings(t) # <<>>
    /\ txn' = t
    /\ validSiblings' = ValidSiblings(t)
    /\ donationPerStudent' = DonationPerStudent(t)
    /\ sib' = 1
    /\ ti' = ti + 1
    /\ before' = students
    /\ pc' = "siblings"
    /\ UNCHANGED <<bucket, errors, data, report, parents, pi, ci, students, rows,
                   nonCareGiverDonations, amount, value>>

\* one pass of the inner loop of assignDonationsToStudents
AssignSibling ==
    /\ pc = "siblings"
    /\ students' = assignSibling(students, validSiblings[sib], txn.Name,
                                 donationPerStudent)
    /\ sib' = sib + 1
    /\ pc' = IF sib < Len(validSiblings) THEN "siblings" ELSE "assign"
    /\ UNCHANGED <<bucket, errors, data, report, parents, pi, ci, rows, donations, drawn, ti, txn,
                   validSiblings, donationPerStudent, before,
                   nonCareGiverDonations, amount, value>>

\* the engine on transactions drawn as the loop reaches them
Draw(t) ==
    /\ drawn < MaxTxns
    /\ ti = Len(donations)
    /\ donations' = Append(donations, t)
    /\ drawn' = drawn + 1
DrawSkip == \E t \in Txns : Draw(t) /\ SkipTxn(t)
DrawTxn == \E t \in Txns : Draw(t) /\ TakeTxn(t)
AssignReturn ==
    /\ pc = "assign"
    /\ ti = Len(donations)
    /\ pc' = "done"
    /\ UNCHANGED <<bucket, errors, data, report, parents, pi, ci, students, rows, donations, drawn, ti,
                   txn,
                   validSiblings, sib, donationPerStudent, before,
                   nonCareGiverDonations, amount, value>>

\* variant: the transactions are taken from the last to the first
nextTxnReversed(ts, i) == ts[Len(ts) - i]

\* "for _, txn := range donations": the transaction taken after i of them
nextTxn(ts, i) == ts[i + 1]

\* the engine on a list of transactions it is given whole
SheetSkip ==
    /\ ti < Len(donations)
    /\ SkipTxn(nextTxn(donations, ti))
    /\ UNCHANGED <<donations, drawn>>
SheetTxn ==
    /\ ti < Len(donations)
    /\ TakeTxn(nextTxn(donations, ti))
    /\ UNCHANGED <<donations, drawn>>
SheetReturn ==
    /\ pc = "assign"
    /\ ti = Len(donations)
    /\ pc' = "nonCareGivers"
    /\ UNCHANGED <<bucket, errors, data, report, parents, pi, ci, students, rows, donations, drawn, ti,
                   txn,
                   validSiblings, sib, donationPerStudent, before,
                   nonCareGiverDonations, amount, value>>

\* readTransactionsByNonCareGivers
ReadNonCareGivers ==
    /\ pc = "nonCareGivers"
    /\ nonCareGiverDonations' = readTransactionsByNonCareGivers(rows)
    /\ pc' = "done"
    /\ UNCHANGED <<bucket, errors, data, report, parents, pi, ci, students, rows, donations, drawn, ti,
                   txn,
                   validSiblings, sib, donationPerStudent, before, amount,
                   value>>

\* parseDollarAmount
ParseDollarAmount ==
    /\ pc = "parse"
    /\ value' = parseDollarAmount(amount)
    /\ pc' = "parsed"
    /\ UNCHANGED <<bucket, errors, data, report, parents, pi, ci, students, rows, donations, drawn, ti,
                   txn,
                   validSiblings, sib, donationPerStudent, before,
                   nonCareGiverDonations, amount>>

\* "for _, student := range students": one pass.  The order in which a Go
\* map is ranged over is not specified: any student not yet met is the next
AppendData ==
    /\ pc \in {"run", "main", "types"}
    /\ \E n \in DOMAIN students \ {data[j][1] : j \in 1..Len(data)} :
           data' = Append(data, studentCells(students[n]))
    /\ UNCHANGED <<bucket, errors, report, pc, parents, pi, ci, students, rows, donations,
                   drawn, ti, txn, validSiblings, sib, donationPerStudent,
                   before, nonCareGiverDonations, amount, value>>

\* the loop that writes the rows of data, from its first pass to its last
WriteRows(program, first, end, offset) ==
    /\ pc = program
    /\ Len(data) = Cardinality(DOMAIN students)
    /\ report' = setSheetRows(report, data, first, end, offset)
    /\ pc' = "reported"
    /\ UNCHANGED <<bucket, errors, data, parents, pi, ci, students, rows, donations,
                   drawn, ti, txn, validSiblings, sib, donationPerStudent,
                   before, nonCareGiverDonations, amount, value>>

\* run(): for i := 3; i < (len(data) + 2); i++ { ... &data[i-2] }
WriteRowsOfRun == WriteRows("run", 3, Len(data) + 2, 2)

\* package main: for i := 2; i < (len(data) + 2); i++ { ... &data[i-2] }
WriteRowsOfMain == WriteRows("main", 2, Len(data) + 2, 2)

\* with internal/types: for i := 3; i < (len(data) + 3); i++ { ... &data[i-3] }
WriteRowsOfTypes == WriteRows("types", 3, Len(data) + 3, 3)

----------------------------------------------------------------------------
(* run() of the cloud function *)

\* the function is triggered by the transaction object; the roster object
\* is in the bucket or is not
InitRun ==
    /\ pc = RunSteps[1].at
    /\ parents \in SheetParents
    /\ rows \in RunSheets
    /\ bucket \in {TriggerBucket, {txnsFile}}
    /\ errors = {}
    /\ pi = 1 /\ ci = 1
    /\ students = EmptyRoster
    /\ donations = <<>> /\ drawn = 0
    /\ ti = 0 /\ txn = NoTxn /\ validSiblings = <<>> /\ sib = 1
    /\ donationPerStudent = 0
    /\ before = EmptyRoster
    /\ nonCareGiverDonations = <<>>
    /\ amount = <<>> /\ value = 0
    /\ data = <<>> /\ report = NoRows

\* the step at pc returns an error: "if err != nil { fmt.Println(err); return }"
\* or "if err != nil { fmt.Println(err) }"
Fails ==
    /\ errors' = errors \cup {pc}
    /\ pc' = IF OnError(pc) = "return" THEN "returned" ELSE After(pc)

\* the step at pc returns no error
Succeeds == pc' = After(pc) /\ UNCHANGED errors

\* a call on the file f
RunCall ==
    /\ pc \in SheetCalls
    /\ \/ Succeeds /\ report' = SheetAfter(pc, report)
       \/ Fails /\ UNCHANGED report
    /\ UNCHANGED <<bucket, data, parents, pi, ci, students, rows, donations,
                   drawn, ti, txn, validSiblings, sib, donationPerStudent,
                   before, nonCareGiverDonations, amount, value>>

\* students, err := makeStudentRows(): getParents reads the roster object
RunMakeStudentRows ==
    /\ pc = "264 makeStudentRows"
    /\ \/ /\ parentsFile \in bucket
          /\ Succeeds
          /\ students' = makeStudentRows(parents)
          /\ pi' = Len(parents) + 1
       \/ Fails /\ UNCHANGED <<students, pi>>
    /\ UNCHANGED <<bucket, data, report, parents, ci, rows, donations,
                   drawn, ti, txn, validSiblings, sib, donationPerStudent,
                   before, nonCareGiverDonations, amount, value>>

\* donations, err := readTransactions()
RunReadTransactions ==
    /\ pc = "270 readTransactions"
    /\ \/ /\ txnsFile \in bucket
          /\ Succeeds
          /\ donations' = readTransactions(rows)
       \/ Fails /\ UNCHANGED donations
    /\ UNCHANGED <<bucket, data, report, parents, pi, ci, students, rows,
                   drawn, ti, txn, validSiblings, sib, donationPerStudent,
                   before, nonCareGiverDonations, amount, value>>

\* assignDonationsToStudents(students, donations)
RunAssign ==
    /\ pc = "276 assignDonationsToStudents"
    /\ Succeeds
    /\ before' = students
    /\ students' = assignDonationsToStudents(students, donations)
    /\ ti' = Len(donations)
    /\ UNCHANGED <<bucket, data, report, parents, pi, ci, rows, donations,
                   drawn, txn, validSiblings, sib, donationPerStudent,
                   nonCareGiverDonations, amount, value>>

\* "for _, student := range students { data = append(data, ...) }", in any
\* order of the map
RunData ==
    /\ pc = "283 data"
    /\ Succeeds
    /\ \E order \in [1..Cardinality(DOMAIN students) -> DOMAIN students] :
           /\ \A j, k \in DOMAIN order : order[j] = order[k] => j = k
           /\ data' = [j \in DOMAIN order |-> studentCells(students[order[j]])]
    /\ UNCHANGED <<bucket, report, parents, pi, ci, students, rows, donations,
                   drawn, ti, txn, validSiblings, sib, donationPerStudent,
                   before, nonCareGiverDonations, amount, value>>

\* "for i := 3; i < (len(data) + 2); i++": the passes of lost return an error,
\* which is printed, and write no row
RunWriteRows ==
    /\ pc = "302 SetSheetRow"
    /\ \E lost \in SUBSET (3..(Len(data) + 1)) :
           LET all == setSheetRows(report, data, 3, Len(data) + 2, 2)
           IN  /\ report' = [i \in DOMAIN all \ lost |-> all[i]]
               /\ IF lost = {} THEN Succeeds ELSE Fails
    /\ UNCHANGED <<bucket, data, parents, pi, ci, students, rows, donations,
                   drawn, ti, txn, validSiblings, sib, donationPerStudent,
                   before, nonCareGiverDonations, amount, value>>

\* nonCareGiverDonations, err := readTransactionsByNonCareGivers()
RunReadNonCareGivers ==
    /\ pc = "338 readTransactionsByNonCareGivers"
    /\ \/ /\ txnsFile \in bucket
          /\ Succeeds
          /\ nonCareGiverDonations' = readTransactionsByNonCareGivers(rows)
       \/ Fails /\ UNCHANGED nonCareGiverDonations
    /\ UNCHANGED <<bucket, data, report, parents, pi, ci, students, rows,
                   donations, drawn, ti, txn, validSiblings, sib,
                   donationPerStudent, before, amount, value>>

\* writeBucketObject(bucket, outputFile, f): f.Write, storage.NewClient or
\* buf.WriteTo returns an error, which writeBucketObject returns; or they
\* return none and writeBucketObject returns nil after the deferred
\* w.Close(), which completes the upload or returns an error nobody reads
WriteBucketObject ==
    /\ pc = "372 writeBucketObject"
    /\ \/ Fails /\ UNCHANGED bucket
       \/ /\ pc' = After(pc)
          /\ \/ bucket' = bucket \cup {outputFile} /\ UNCHANGED errors
             \/ errors' = errors \cup {"402 w.Close"} /\ UNCHANGED bucket
    /\ UNCHANGED <<data, report, parents, pi, ci, students, rows, donations,
                   drawn, ti, txn, validSiblings, sib, donationPerStudent,
                   before, nonCareGiverDonations, amount, value>>

\* deleteBucketObject(bucket, txnsFile)
DeleteBucketObject ==
    /\ pc = "380 deleteBucketObject"
    /\ \/ Succeeds /\ bucket' = bucket \ {txnsFile}
       \/ Fails /\ UNCHANGED bucket
    /\ UNCHANGED <<data, report, parents, pi, ci, students, rows, donations,
                   drawn, ti, txn, validSiblings, sib, donationPerStudent,
                   before, nonCareGiverDonations, amount, value>>

----------------------------------------------------------------------------
(* Specifications *)

Next == DrawSkip \/ DrawTxn \/ AssignSibling \/ AssignReturn
Spec == Init /\ [][Next]_vars

NextRoster == MakeStudentRowsStep \/ MakeStudentRowsReturn
SpecRoster == InitRoster /\ [][NextRoster]_vars

NextSheet ==
    \/ MakeStudentRowsStep \/ MakeStudentRowsReturn \/ ReadTransactions
    \/ SheetSkip \/ SheetTxn \/ AssignSibling \/ SheetReturn
    \/ ReadNonCareGivers
SpecSheet == InitSheet /\ [][NextSheet]_vars

NextParse == ParseDollarAmount
SpecParse == InitParse /\ [][NextParse]_vars

NextReport ==
    AppendData \/ WriteRowsOfRun \/ WriteRowsOfMain \/ WriteRowsOfTypes
SpecReport == InitReport /\ [][NextReport]_vars

\* the engine on a whole list; a call that can take a step takes it
NextList == SheetSkip \/ SheetTxn \/ AssignSibling \/ AssignReturn
SpecList == InitList /\ [][NextList]_vars
SpecListFair == SpecList /\ WF_vars(NextList)

\* run() with its calls returning an error or none
NextRun ==
    \/ RunCall \/ RunMakeStudentRows \/ RunReadTransactions \/ RunAssign
    \/ RunData \/ RunWriteRows \/ RunReadNonCareGivers \/ WriteBucketObject
    \/ DeleteBucketObject
SpecRun == InitRun /\ [][NextRun]_vars

----------------------------------------------------------------------------
(* What the claims speak of *)

Slots == 1..3

DonorName(s, i) ==
    CASE i = 1 -> s.PrimaryDonor1 [] i = 2 -> s.PrimaryDonor2
      [] i = 3 -> s.PrimaryDonor3

DonorAmount(s, i) ==
    CASE i = 1 -> s.PrimaryDonor1DonationAmount
      [] i = 2 -> s.PrimaryDonor2DonationAmount
      [] i = 3 -> s.PrimaryDonor3DonationAmount

SlotSum(s) == DonorAmount(s, 1) + DonorAmount(s, 2) + DonorAmount(s, 3)

Least(S) == CHOOSE i \in S : \A j \in S : i <= j

\* the student-name fields of t that are filled, and those that name n
Named(t) == {i \in Slots : Siblings(t)[i] # ""}
Naming(t, n) == {i \in Slots : Siblings(t)[i] = n}

\* amount / beneficiary count, for a transaction with a beneficiary
Share(t) == parseDollarAmount(t.Amount) \div Cardinality(Named(t))

\* the inner loop is about to process a sibling that is in the roster
AtBeneficiary == pc = "siblings" /\ validSiblings[sib] \in DOMAIN students

\* the outer loop has finished a transaction that had beneficiaries
TxnProcessed == pc = "assign" /\ ti > 0 /\ txn = donations[ti] /\ Named(txn) # {}

RECURSIVE Copies(_, _)
Copies(x, k) == IF k = 0 THEN <<>> ELSE <<x>> \o Copies(x, k - 1)

\* the <<donor, share>> pairs student n has received, in order: from the
\* transactions 1..j, and from the passes made of the transaction in progress
RECURSIVE ReceivedUpTo(_, _)
ReceivedUpTo(n, j) ==
    IF j = 0 THEN <<>>
    ELSE ReceivedUpTo(n, j - 1) \o
         (IF Named(donations[j]) = {} THEN <<>>
          ELSE Copies(<<donations[j].Name, Share(donations[j])>>,
                      Cardinality(Naming(donations[j], n))))

Received(n) ==
    IF pc = "siblings"
    THEN ReceivedUpTo(n, ti - 1) \o
         Copies(<<txn.Name, Share(txn)>>,
                Cardinality({i \in 1..(sib - 1) : validSiblings[i] = n}))
    ELSE ReceivedUpTo(n, ti)

\* the donors of a sequence of <<donor, share>> pairs, in order of first gift
RECURSIVE DistinctDonors(_)
DistinctDonors(ev) ==
    IF ev = <<>> THEN <<>>
    ELSE LET r == DistinctDonors(SubSeq(ev, 1, Len(ev) - 1))
             d == ev[Len(ev)][1]
         IN  IF \E i \in 1..Len(r) : r[i] = d THEN r ELSE Append(r, d)

\* the shares of ev given by the donors of D
RECURSIVE SharesOf(_, _)
SharesOf(ev, D) ==
    IF ev = <<>> THEN 0
    ELSE SharesOf(Tail(ev), D) + (IF Head(ev)[1] \in D THEN Head(ev)[2] ELSE 0)

\* the donors after the third in order of first gift: their shares find no slot
LateDonors(ev) ==
    {DistinctDonors(ev)[i] : i \in {j \in 1..Len(DistinctDonors(ev)) : j > 3}}

----------------------------------------------------------------------------
(* C1 *)

\* a pass of the inner loop for a beneficiary of the roster resolves the slot
C1_Step ==
    AtBeneficiary =>
        LET n == validSiblings[sib]
            s == students[n]
            d == txn.Name
            matches == {i \in Slots : DonorName(s, i) = d}
            empties == {i \in Slots : DonorName(s, i) = ""}
            hit == IF matches # {} THEN Least(matches)
                   ELSE IF empties # {} THEN Least(empties) ELSE 0
        IN  /\ \A i \in Slots \ {hit} :
                /\ DonorName(students'[n], i) = DonorName(s, i)
                /\ DonorAmount(students'[n], i) = DonorAmount(s, i)
            /\ matches # {} =>
                /\ DonorName(students'[n], hit) = DonorName(s, hit)
                /\ DonorAmount(students'[n], hit) = DonorAmount(s, hit) + Share(txn)
            /\ (matches = {} /\ empties # {}) =>
                /\ DonorName(students'[n], hit) = d
                /\ DonorAmount(students'[n], hit) = Share(txn)

\* C1: slot resolution, first match wins.  When the inner loop processes a
\* beneficiary of the roster: if the donor's name is the name of a slot, the
\* share is added to the amount of the first such slot; otherwise the donor is
\* written, with amount = share, into the lowest-numbered empty slot; every
\* other slot keeps its name and amount.
C1_SlotPriority == [][C1_Step]_vars

\* Mom's second gift went to slot 1, where she was, and Aunt's first to slot 3
C1_Witness ==
    /\ "Alice" \in DOMAIN students
    /\ students["Alice"].PrimaryDonor1 = "Mom"
    /\ students["Alice"].PrimaryDonor1DonationAmount = Money(22, 0)
    /\ students["Alice"].PrimaryDonor2 = "Dad"
    /\ students["Alice"].PrimaryDonor3 = "Aunt"
    /\ students["Alice"].PrimaryDonor3DonationAmount = Money(10, 0)

----------------------------------------------------------------------------
(* C2 *)

RECURSIVE SumOver(_, _)
SumOver(f, S) ==
    IF S = {} THEN 0
    ELSE LET x == CHOOSE y \in S : TRUE IN f[x] + SumOver(f, S \ {x})

Increase == [n \in DOMAIN students |->
                students[n].TotalDonationAmount - before[n].TotalDonationAmount]

Beneficiaries(t) == {Siblings(t)[i] : i \in Named(t)}

\* C2 as claimed: when a transaction with amount A and k filled student-name
\* fields has been processed, the total of each beneficiary has increased by
\* exactly A/k, and the increases sum to A.
C2_EqualSplitAsClaimed ==
    TxnProcessed =>
        /\ \A n \in Beneficiaries(txn) \cap DOMAIN students :
               Increase[n] = parseDollarAmount(txn.Amount) \div Cardinality(Named(txn))
        /\ SumOver(Increase, Beneficiaries(txn) \cap DOMAIN students)
               = parseDollarAmount(txn.Amount)

\* C2, amended: the total of every student of the roster has increased by
\* A/k for each student-name field that names it, and where the k fields name
\* k different students of the roster the increases sum to A.
C2_EqualSplit ==
    TxnProcessed =>
        /\ \A n \in DOMAIN students :
               Increase[n] = Cardinality(Naming(txn, n))
                   * (parseDollarAmount(txn.Amount) \div Cardinality(Named(txn)))
        /\ ( /\ Beneficiaries(txn) \subseteq DOMAIN students
             /\ Cardinality(Beneficiaries(txn)) = Cardinality(Named(txn)) ) =>
               SumOver(Increase, Beneficiaries(txn)) = parseDollarAmount(txn.Amount)

\* ten dollars were split among three students of the roster
C2_Witness ==
    /\ TxnProcessed
    /\ Cardinality(Beneficiaries(txn)) = 3
    /\ Beneficiaries(txn) \subseteq DOMAIN students
    /\ \A n \in Beneficiaries(txn) : 3 * Increase[n] = Money(10, 0)

----------------------------------------------------------------------------
(* C3 *)

ThousandsText == <<"$", "1", ",", "2", "3", "4", ".", "5", "6">>

\* C3: amount parsing.  parseDollarAmount maps "$1,234.56" to 1234.56 and
\* "$10.00" to 10.00, and an unparseable text such as "N/A" to 0.
C3_AmountParsing ==
    pc = "parsed" =>
        /\ amount = ThousandsText => value = Money(1234, 56)
        /\ amount = Dollars10 => value = Money(10, 0)
        /\ amount = NotAvailable => value = 0

----------------------------------------------------------------------------
(* C4, C5 *)

\* the <<parent name, child>> pairs of the first k children of a record
RECURSIVE PairsOf(_, _)
PairsOf(parent, k) ==
    IF k = 0 THEN <<>>
    ELSE Append(PairsOf(parent, k - 1), <<parent.Name, parent.Children[k]>>)

\* the pairs of the records 1..j
RECURSIVE PairsUpTo(_)
PairsUpTo(j) ==
    IF j = 0 THEN <<>>
    ELSE PairsUpTo(j - 1) \o PairsOf(parents[j], Len(parents[j].Children))

\* the pairs makeStudentRows has processed, in order
PairsDone ==
    PairsUpTo(pi - 1) \o
    (IF pi <= Len(parents) THEN PairsOf(parents[pi], ci - 1) ELSE <<>>)

\* the pairs of child n among them
RECURSIVE PairsFor(_, _)
PairsFor(pairs, n) ==
    IF pairs = <<>> THEN <<>>
    ELSE (IF Head(pairs)[2].Name = n THEN <<Head(pairs)>> ELSE <<>>)
         \o PairsFor(Tail(pairs), n)

Caregiver(s, i) ==
    CASE i = 1 -> s.Parent1 [] i = 2 -> s.Parent2 [] i = 3 -> s.Parent3

\* C4: caregiver-slot fill order.  For every student of the roster, the Nth
\* caregiver it was given (N <= 3) is in slot N, the slots after the last
\* caregiver are empty, and every other field is as in the child record the
\* student was created from.
C4_CaregiverFillOrder ==
    \A n \in DOMAIN students :
        LET given == PairsFor(PairsDone, n)
            s == students[n]
        IN  /\ given # <<>>
            /\ \A i \in Slots :
                   Caregiver(s, i) = IF i <= Len(given) THEN given[i][1] ELSE ""
            /\ [s EXCEPT !.Parent1 = "", !.Parent2 = "", !.Parent3 = ""]
                   = given[1][2]

\* a student was given Mom, then Dad, then Gran
C4_Witness ==
    \E n \in DOMAIN students :
        /\ students[n].Parent1 = "Mom"
        /\ students[n].Parent2 = "Dad"
        /\ students[n].Parent3 = "Gran"
        /\ Len(PairsFor(PairsDone, n)) = 3

AllCaregivers(s) == s.Parent1 # "" /\ s.Parent2 # "" /\ s.Parent3 # ""

\* a pass for a child whose student has three caregivers changes nothing
C5_Step ==
    ( /\ pc = "makeStudentRows"
      /\ pi <= Len(parents)
      /\ parents[pi].Children[ci].Name \in DOMAIN students
      /\ AllCaregivers(students[parents[pi].Children[ci].Name]) ) =>
        students' = students

\* C5: caregiver overflow.  A pass of makeStudentRows for a child whose
\* student has three caregivers leaves the student, and the whole roster,
\* as it was.
C5_CaregiverOverflow == [][C5_Step]_vars

\* a student was given a fourth caregiver, who is in none of its slots
C5_Witness ==
    \E n \in DOMAIN students :
        /\ Len(PairsFor(PairsDone, n)) = 4
        /\ \A i \in Slots :
               Caregiver(students[n], i) # PairsFor(PairsDone, n)[4][1]

----------------------------------------------------------------------------
(* C6 *)

\* no donor name is in two slots of a student
NoDonorTwice ==
    \A n \in DOMAIN students : \A i \in Slots : \A j \in Slots :
        (i # j /\ DonorName(students[n], i) # "") =>
            DonorName(students[n], i) # DonorName(students[n], j)

\* a donor who is in a slot of the beneficiary stays in that slot alone, and
\* the share is added to the amount of that slot
SameDonorAccumulates ==
    AtBeneficiary =>
        \A i \in Slots :
            DonorName(students[validSiblings[sib]], i) = txn.Name =>
                /\ \A j \in Slots :
                       DonorName(students'[validSiblings[sib]], j) = txn.Name
                           <=> j = i
                /\ DonorAmount(students'[validSiblings[sib]], i)
                       = DonorAmount(students[validSiblings[sib]], i) + Share(txn)

\* C6: donor slot idempotence.  A donor processed again for the same student
\* accumulates into the slot the donor has, and no donor name ever is in more
\* than one of the three donor slots of a student.
C6_DonorSlotIdempotence == []NoDonorTwice /\ [][SameDonorAccumulates]_vars

\* Dad, in slot 2, has given twice more and is in slot 2 only
C6_Witness ==
    /\ "Alice" \in DOMAIN students
    /\ students["Alice"].PrimaryDonor2 = "Dad"
    /\ students["Alice"].PrimaryDonor2DonationAmount = Money(32, 0)
    /\ students["Alice"].PrimaryDonorsPerStudent = 2

----------------------------------------------------------------------------
(* C7 *)

\* a pass for a beneficiary whose slots hold three other donors
C7_Step ==
    ( /\ AtBeneficiary
      /\ \A i \in Slots :
             /\ DonorName(students[validSiblings[sib]], i) # ""
             /\ DonorName(students[validSiblings[sib]], i) # txn.Name ) =>
        /\ \A i \in Slots :
               /\ DonorName(students'[validSiblings[sib]], i)
                      = DonorName(students[validSiblings[sib]], i)
               /\ DonorAmount(students'[validSiblings[sib]], i)
                      = DonorAmount(students[validSiblings[sib]], i)
        /\ students'[validSiblings[sib]].TotalDonationAmount
               = students[validSiblings[sib]].TotalDonationAmount + Share(txn)

\* C7: donor slot overflow.  When the three slots of the beneficiary hold
\* three other donors, the donor names and the slot amounts stay as they are
\* and the total grows by the share.
C7_DonorSlotOverflow == [][C7_Step]_vars

\* Aunt, the fourth donor of Alice, gave ten dollars that are in the total only
C7_Witness ==
    /\ "Alice" \in DOMAIN students
    /\ LateDonors(Received("Alice")) = {"Aunt"}
    /\ SlotSum(students["Alice"]) = Money(36, 0)
    /\ students["Alice"].TotalDonationAmount = Money(46, 0)
    /\ \A i \in Slots : DonorName(students["Alice"], i) # "Aunt"

----------------------------------------------------------------------------
(* C8 *)

NoStudentNamed(t) ==
    t.FirstStudentName = "" /\ t.SecondStudentName = "" /\ t.ThirdStudentName = ""

\* the entry of the unattributed collection for transaction t
Unattributed(t) ==
    \E j \in 1..Len(nonCareGiverDonations) :
        /\ nonCareGiverDonations[j].Date = t.Date
        /\ nonCareGiverDonations[j].Name = t.Name
        /\ nonCareGiverDonations[j].Amount = t.Amount

\* the transactions of ts that name a student
RECURSIVE WithStudent(_)
WithStudent(ts) ==
    IF ts = <<>> THEN <<>>
    ELSE (IF NoStudentNamed(Head(ts)) THEN <<>> ELSE <<Head(ts)>>)
         \o WithStudent(Tail(ts))

\* C8: unattributed routing.  A transaction with no student named leaves the
\* roster as it was when the engine took it; at the end of the run it is in
\* the unattributed collection, and the roster is the one the run makes of
\* the transactions that name a student.
C8_UnattributedRouting ==
    /\ (pc = "assign" /\ ti > 0 /\ NoStudentNamed(donations[ti])) =>
           students = before
    /\ pc = "done" =>
           /\ \A i \in 1..Len(donations) :
                  NoStudentNamed(donations[i]) => Unattributed(donations[i])
           /\ students = assignDonationsToStudents(makeStudentRows(parents),
                                                  WithStudent(donations))

\* a run is over in which Gran's gift is unattributed and Mom's went to Alice
C8_Witness ==
    /\ pc = "done"
    /\ \E i \in 1..Len(donations) :
           /\ NoStudentNamed(donations[i])
           /\ donations[i].Name = "Gran"
           /\ Unattributed(donations[i])
    /\ "Alice" \in DOMAIN students
    /\ students["Alice"].PrimaryDonor1 = "Mom"
    /\ students["Alice"].PrimaryDonor2 = ""
    /\ students["Alice"].TotalDonationAmount = Money(12, 0)

----------------------------------------------------------------------------
(* C9 *)

\* C9: unknown student skip.  The keys of the roster stay the child names of
\* the parent records, whatever students the transactions name, and every
\* entry stays under its own name.
C9_UnknownStudentSkip ==
    /\ DOMAIN students =
           UNION {{parents[p].Children[c].Name :
                      c \in 1..Len(parents[p].Children)} : p \in 1..Len(parents)}
    /\ \A n \in DOMAIN students : students[n].Name = n

\* a transaction naming Bob was processed on a roster without Bob
C9_Witness ==
    /\ TxnProcessed
    /\ "Bob" \in Beneficiaries(txn)
    /\ "Bob" \notin DOMAIN students
    /\ parseDollarAmount(txn.Amount) > 0

----------------------------------------------------------------------------
(* C10 *)

----------------------------------------------------------------------------
(* C11 *)

\* a slot with no name has amount 0
EmptySlotHasNoAmount ==
    \A n \in DOMAIN students : \A i \in Slots :
        DonorName(students[n], i) = "" => DonorAmount(students[n], i) = 0

\* a slot amount leaves 0 only in a step after which the slot has a name
AmountComesWithName ==
    \A n \in DOMAIN students : \A i \in Slots :
        (DonorAmount(students[n], i) = 0 /\ DonorAmount(students'[n], i) # 0) =>
            DonorName(students'[n], i) # ""

----------------------------------------------------------------------------
(* C12 *)

\* the filled donor slots of every student are the first ones
NoGap ==
    \A n \in DOMAIN students :
        /\ students[n].PrimaryDonor2 # "" => students[n].PrimaryDonor1 # ""
        /\ students[n].PrimaryDonor3 # "" => students[n].PrimaryDonor2 # ""

\* the name of a filled slot stays
FilledSlotKeepsName ==
    \A n \in DOMAIN students : \A i \in Slots :
        DonorName(students[n], i) # "" =>
            DonorName(students'[n], i) = DonorName(students[n], i)

\* C12: no-gap invariant.  In every state the donor slots of every student
\* are filled from the left without gaps, and no step clears or replaces the
\* name of a filled slot.
C12_NoGap == []NoGap /\ [][FilledSlotKeepsName]_vars

\* Bob got his donors from the transactions drawn: Mom in slot 1, then Dad in
\* slot 2, slot 3 still empty
C12_Witness ==
    /\ "Bob" \in DOMAIN students
    /\ drawn = 2
    /\ pc = "assign"
    /\ students["Bob"].PrimaryDonor1 = "Mom"
    /\ students["Bob"].PrimaryDonor2 = "Dad"
    /\ students["Bob"].PrimaryDonor3 = ""
    /\ donations[Len(donations)].Name = "Dad"

----------------------------------------------------------------------------
(* C13 *)

FilledSlots(s) == {i \in Slots : DonorName(s, i) # ""}

\* C13: donor count invariant.  In every state, after the roster was built
\* and after every beneficiary processed, PrimaryDonorsPerStudent of every
\* student is the number of its donor slots with a name, and is in 0..3.
C13_DonorCount ==
    \A n \in DOMAIN students :
        /\ students[n].PrimaryDonorsPerStudent
               = Cardinality(FilledSlots(students[n]))
        /\ students[n].PrimaryDonorsPerStudent \in 0..3

\* Alice, given by four donors, counts three; Bob, given twice by Mom, counts
\* one; Cy, given nothing, counts none
C13_Witness ==
    /\ {"Alice", "Bob", "Cy"} \subseteq DOMAIN students
    /\ Len(DistinctDonors(Received("Alice"))) = 4
    /\ students["Alice"].PrimaryDonorsPerStudent = 3
    /\ Len(Received("Bob")) = 2
    /\ students["Bob"].PrimaryDonorsPerStudent = 1
    /\ students["Cy"].PrimaryDonorsPerStudent = 0

----------------------------------------------------------------------------
(* C14 *)

WithCaregiver(s, i, name) ==
    CASE i = 1 -> [s EXCEPT !.Parent1 = name]
      [] i = 2 -> [s EXCEPT !.Parent2 = name]
      [] i = 3 -> [s EXCEPT !.Parent3 = name]

EmptyCaregiverSlots(s) == {i \in Slots : Caregiver(s, i) = ""}

\* a pass of makeStudentRows for a child whose name is a key of the roster
C14_Step ==
    ( /\ pc = "makeStudentRows"
      /\ pi <= Len(parents)
      /\ parents[pi].Children[ci].Name \in DOMAIN students ) =>
        LET n == parents[pi].Children[ci].Name
            s == students[n]
        IN  /\ DOMAIN students' = DOMAIN students
            /\ \A m \in DOMAIN students \ {n} : students'[m] = students[m]
            /\ students'[n].Grade = s.Grade
            /\ students'[n].Class = s.Class
            /\ students'[n] =
                   IF EmptyCaregiverSlots(s) = {} THEN s
                   ELSE WithCaregiver(s, Least(EmptyCaregiverSlots(s)),
                                      parents[pi].Name)

\* C14: roster merge, first occurrence wins.  When makeStudentRows meets a
\* child name that is a key of the roster, the student keeps its Grade and
\* Class (the class of the later record is not written) and only gains the
\* caregiver in its first empty caregiver slot.
C14_FirstOccurrenceWins == [][C14_Step]_vars

\* Alice, created in class K, was met again in a record that has her in class
\* 1: she is in class K and has the second caregiver
C14_Witness ==
    /\ "Alice" \in DOMAIN students
    /\ Len(PairsFor(PairsDone, "Alice")) = 2
    /\ PairsFor(PairsDone, "Alice")[1][2].Class = "K"
    /\ PairsFor(PairsDone, "Alice")[2][2].Class = "1"
    /\ students["Alice"].Class = "K"
    /\ students["Alice"].Parent1 = PairsFor(PairsDone, "Alice")[1][1]
    /\ students["Alice"].Parent2 = PairsFor(PairsDone, "Alice")[2][1]
    /\ students["Alice"].Parent3 = ""

----------------------------------------------------------------------------
(* C15 *)

\* the child names of the parent records
ChildNames ==
    UNION {{parents[p].Children[c].Name : c \in 1..Len(parents[p].Children)} :
              p \in 1..Len(parents)}

\* C15: roster builder result.  The roster makeStudentRows returns has one
\* entry for every child name of the parent records and no other entry; each
\* entry is under its own Name, with the three donor names empty, the three
\* donor amounts 0, PrimaryDonorsPerStudent 0 and TotalDonationAmount 0.
C15_RosterResult ==
    pc = "readTransactions" =>
        /\ DOMAIN students = ChildNames
        /\ \A n \in DOMAIN students :
               /\ students[n].Name = n
               /\ \A i \in Slots :
                      /\ DonorName(students[n], i) = ""
                      /\ DonorAmount(students[n], i) = 0
               /\ students[n].PrimaryDonorsPerStudent = 0
               /\ students[n].TotalDonationAmount = 0

\* makeStudentRows returned Alice and Bob for three records with five children
C15_Witness ==
    /\ pc = "readTransactions"
    /\ Len(parents) = 3
    /\ Len(PairsDone) = 5
    /\ DOMAIN students = {"Alice", "Bob"}
    /\ students["Alice"].Name = "Alice"
    /\ students["Bob"].Name = "Bob"

----------------------------------------------------------------------------
(* C16 *)

\* the engine has no position but the loop head, the inner loop and the return
NoAbort == pc \in {"assign", "siblings", "done"}

\* the transactions are taken one at a time, in the order of the list
TakenInOrder == ti' # ti => (ti' = ti + 1 /\ txn' = donations[ti'])

\* at the return every transaction was taken, and the roster is the one that
\* applying each transaction once, in order, gives
AllProcessed ==
    pc = "done" =>
        /\ ti = Len(donations)
        /\ students = assignDonationsToStudents(makeStudentRows(parents), donations)

\* C16: always completes.  For every roster and every finite list of
\* transactions (amounts that do not parse, students that are not in the
\* roster, no student at all, more than three donors of a student),
\* assignDonationsToStudents returns, having processed every transaction
\* once, in input order, and is never in an abort state.
C16_AlwaysCompletes ==
    /\ <>(pc = "done")
    /\ []NoAbort
    /\ [][TakenInOrder]_vars
    /\ []AllProcessed

\* the engine returned from a list of five: three donors of Alice, then Aunt
\* with an amount that does not parse for Bob, Dee (in no roster) and Alice,
\* then a gift of Mom with no student
C16_Witness ==
    /\ pc = "done"
    /\ Len(donations) = 5
    /\ ti = 5
    /\ donations[4].Name = "Aunt"
    /\ donations[4].Amount = NotAvailable
    /\ Siblings(donations[4]) = <<"Bob", "Dee", "Alice">>
    /\ Siblings(donations[5]) = <<"", "", "">>
    /\ "Dee" \notin DOMAIN students
    /\ students["Alice"].PrimaryDonorsPerStudent = 3
    /\ students["Bob"].PrimaryDonor1 = "Aunt"

----------------------------------------------------------------------------
(* C17 *)

\* the roster sheet has Mom with Alice and Bob, the transaction sheet has
\* Mom's twenty dollars for Alice and Bob and no other transaction
MomGivesTwenty ==
    /\ parents = <<NewParent("Mom", <<Alice, Bob>>)>>
    /\ rows = <<HeaderRow, TotalRow, MomTwenty>>

\* C17: end-to-end scenario.  With the roster of Alice and Bob, each with
\* caregiver Mom, and the one transaction of Mom, "$20.00", for Alice and
\* Bob, the run ends with PrimaryDonor1 = "Mom", PrimaryDonor1DonationAmount
\* = 10.00, TotalDonationAmount = 10.00, PrimaryDonorsPerStudent = 1 and the
\* donor slots 2 and 3 empty, for Alice and for Bob alike.
C17_EndToEnd ==
    (pc = "done" /\ MomGivesTwenty) =>
        /\ DOMAIN students = {"Alice", "Bob"}
        /\ \A n \in {"Alice", "Bob"} :
               /\ students[n].Parent1 = "Mom"
               /\ students[n].PrimaryDonor1 = "Mom"
               /\ students[n].PrimaryDonor1DonationAmount = Money(10, 0)
               /\ students[n].TotalDonationAmount = Money(10, 0)
               /\ students[n].PrimaryDonorsPerStudent = 1
               /\ students[n].PrimaryDonor2 = ""
               /\ students[n].PrimaryDonor2DonationAmount = 0
               /\ students[n].PrimaryDonor3 = ""
               /\ students[n].PrimaryDonor3DonationAmount = 0

\* the run of the scenario is over: one transaction was read and processed,
\* none is unattributed
C17_Witness ==
    /\ pc = "done"
    /\ MomGivesTwenty
    /\ Len(donations) = 1 /\ ti = 1
    /\ donations[1].Amount = Dollars20
    /\ ValidSiblings(donations[1]) = <<"Alice", "Bob">>
    /\ nonCareGiverDonations = <<>>
    /\ students["Alice"].TotalDonationAmount + students["Bob"].TotalDonationAmount
           = Money(20, 0)

----------------------------------------------------------------------------
(* C18 *)

RowHasNoStudent(row) == row.c6 = "" /\ row.c8 = "" /\ row.c10 = ""

\* date, donor name and amount of the transaction rows (the rows after the
\* header and the total row) from row i on that have no student, in order;
\* the amount as it is in the cell, or with its spaces removed
RECURSIVE NoStudentRows(_, _, _)
NoStudentRows(sheet, i, spacesRemoved) ==
    IF i > Len(sheet) THEN <<>>
    ELSE (IF RowHasNoStudent(sheet[i])
          THEN <<<<sheet[i].c0, sheet[i].c1,
                   IF spacesRemoved THEN ReplaceAll(sheet[i].c2, " ")
                   ELSE sheet[i].c2>>>>
          ELSE <<>>)
         \o NoStudentRows(sheet, i + 1, spacesRemoved)

\* date, donor name and amount of the unattributed collection
Listed ==
    [j \in 1..Len(nonCareGiverDonations) |->
        <<nonCareGiverDonations[j].Date, nonCareGiverDonations[j].Name,
          nonCareGiverDonations[j].Amount>>]

\* the engine skips the transaction of a row (the loop head is reached again
\* at once) exactly if the row has no student, the rows that are listed
SkippedIfListed ==
    ti' = ti + 1 => (pc' = "assign" <=> RowHasNoStudent(rows[ti' + 2]))

\* C18 as claimed: the unattributed collection is the subsequence, in input
\* order, of the transaction rows with no student, each with its date, donor
\* name and amount text; so every row is skipped by the engine and listed, or
\* attributed and not listed.
C18_UnattributedContentsAsClaimed ==
    /\ [](pc = "done" => Listed = NoStudentRows(rows, 3, FALSE))
    /\ [][SkippedIfListed]_vars

\* C18, amended: the same, each entry with the date and the donor name of
\* its row and the amount text of its row with the spaces removed.
C18_UnattributedContents ==
    /\ [](pc = "done" => Listed = NoStudentRows(rows, 3, TRUE))
    /\ [][SkippedIfListed]_vars

\* of three rows the first, of Mom, and the third, of Gran, have no student
\* and are listed in this order; the second went to a student
C18_Witness ==
    /\ pc = "done"
    /\ Len(rows) = 5
    /\ RowHasNoStudent(rows[3]) /\ rows[3].c1 = "Mom"
    /\ ~RowHasNoStudent(rows[4])
    /\ RowHasNoStudent(rows[5]) /\ rows[5].c1 = "Gran"
    /\ Len(nonCareGiverDonations) = 2
    /\ nonCareGiverDonations[1].Name = "Mom"
    /\ nonCareGiverDonations[2].Name = "Gran"
    /\ rows[5].c2 = Spaced12
    /\ nonCareGiverDonations[2].Amount = Dollars12

----------------------------------------------------------------------------
(* C19 *)

\* the rows below header row h are one row of data for every student of the
\* roster, on consecutive rows from h + 1 on
RowsBelow(h) ==
    LET dataRows == {i \in DOMAIN report : i > h}
    IN  /\ dataRows = (h + 1)..(h + Cardinality(DOMAIN students))
        /\ \A n \in DOMAIN students :
               Cardinality({i \in dataRows : report[i] = studentCells(students[n])}) = 1

\* C19: report completeness.  In every program, the loop that writes the
\* roster to the "Donations By Student" sheet writes one row of data for
\* every student of the roster, none left out and none twice, on consecutive
\* rows directly below the header row.
C19_ReportCompleteness ==
    pc = "reported" =>
        \E h \in DOMAIN report :
            report[h] = donationsByStudentHeader /\ RowsBelow(h)

----------------------------------------------------------------------------
(* C20 *)

\* the student-name fields of t that name a student who is not in the roster
Absent(t) == {i \in Named(t) : Siblings(t)[i] \notin DOMAIN students}

\* C20: the split denominator counts unknown students.  The share is the
\* amount divided by the number of filled student-name fields, whether or not
\* the names are keys of the roster; when m of the k fields name students
\* that are not in the roster, every student of the roster still receives
\* A/k for each field that names it, and m * A/k is added to no student.
C20_SplitCountsUnknown ==
    /\ pc = "siblings" =>
           donationPerStudent
               = parseDollarAmount(txn.Amount) \div Cardinality(Named(txn))
    /\ TxnProcessed =>
           LET share == parseDollarAmount(txn.Amount) \div Cardinality(Named(txn))
           IN  /\ \A n \in DOMAIN students :
                      Increase[n] = Cardinality(Naming(txn, n)) * share
               /\ SumOver(Increase, DOMAIN students)
                      = parseDollarAmount(txn.Amount)
                        - Cardinality(Absent(txn)) * share

\* ten dollars for Bob, Alice and Cy on the roster of Alice alone: Alice has a
\* third of them, two thirds are in no total
C20_Witness ==
    /\ TxnProcessed
    /\ DOMAIN students = {"Alice"}
    /\ Siblings(txn) = <<"Bob", "Alice", "Cy">>
    /\ parseDollarAmount(txn.Amount) = Money(10, 0)
    /\ Cardinality(Absent(txn)) = 2
    /\ 3 * Increase["Alice"] = Money(10, 0)
    /\ 3 * (Money(10, 0) - SumOver(Increase, DOMAIN students)) = 2 * Money(10, 0)

----------------------------------------------------------------------------
(* C21 *)

\* what the roster builder wrote of a student
Identity(s) == <<s.Name, s.Grade, s.Class, s.Parent1, s.Parent2, s.Parent3>>

\* a step of the engine keeps the keys of the roster, what the roster builder
\* wrote of every student, and every student the transaction does not name
AttributionFrame ==
    /\ DOMAIN students' = DOMAIN students
    /\ \A n \in DOMAIN students :
           /\ Identity(students'[n]) = Identity(students[n])
           /\ n \notin Beneficiaries(txn') => students'[n] = students[n]

\* when a transaction has been processed, the students it does not name are
\* as they were when it was taken
OthersUntouched ==
    (pc = "assign" /\ ti > 0) =>
        /\ DOMAIN students = DOMAIN before
        /\ \A n \in DOMAIN students :
               /\ Identity(students[n]) = Identity(before[n])
               /\ n \notin Beneficiaries(txn) => students[n] = before[n]

\* C21: attribution frame.  Processing a transaction changes only the donor
\* names, the donor amounts, PrimaryDonorsPerStudent and TotalDonationAmount
\* of the students the transaction names: Name, Grade, Class, Parent1,
\* Parent2 and Parent3 of every student stay, a student that is not named
\* stays as a whole, and no entry of the roster is deleted.
C21_AttributionFrame == []OthersUntouched /\ [][AttributionFrame]_vars

\* a gift of Aunt to Alice and Bob changed both and left Cy as she was
C21_Witness ==
    /\ TxnProcessed
    /\ txn.Name = "Aunt"
    /\ Beneficiaries(txn) = {"Alice", "Bob"}
    /\ DOMAIN students = {"Alice", "Bob", "Cy"}
    /\ students["Alice"] # before["Alice"]
    /\ students["Bob"] # before["Bob"]
    /\ students["Cy"] = before["Cy"]
    /\ students["Alice"].Parent1 = "Mom"
    /\ students["Alice"].Parent2 = ""

----------------------------------------------------------------------------
(* C22 *)

\* the three copies of parseDollarAmount give the same value
SameAmount(text) ==
    /\ parseDollarAmountOfMain(text) = parseDollarAmount(text)
    /\ parseDollarAmountOfTypes(text) = parseDollarAmount(text)

\* C22: the three copies of the engine are equivalent.  Run step by step on
\* the same parent records and the same list of transactions, the copy of
\* package main and the copy of the program with internal/types (makeStudentRows
\* and addParent, then assignDonationsToStudents with parseDollarAmount) have
\* the roster of the cloud function after every transaction: the same roster
\* where the model starts, and from the same roster the same roster after
\* the next transaction.  The three copies of parseDollarAmount agree.
C22_CopiesEquivalent ==
    /\ drawn = 0 =>
           /\ students = assignDonationsToStudentsOfMain(
                             makeStudentRowsOfMain(parents), donations)
           /\ students = assignDonationsToStudentsOfTypes(
                             makeStudentRowsOfTypes(parents), donations)
           /\ \A text \in SampleTexts : SameAmount(text)
    /\ (pc = "assign" /\ drawn > 0) =>
           /\ students = assignDonationsToStudentsOfMain(before, <<txn>>)
           /\ students = assignDonationsToStudentsOfTypes(before, <<txn>>)

\* the cloud function has processed five transactions, the last two drawn,
\* on a roster of three students, a fourth donor and an amount that does not
\* parse among them
C22_Witness ==
    /\ pc = "assign"
    /\ ti = 5
    /\ Len(parents) = 1
    /\ DOMAIN students = {"Alice", "Bob", "Cy"}
    /\ \E i \in 4..5 : donations[i].Name = "Aunt" /\ "Alice" \in Beneficiaries(donations[i])
    /\ \E i \in 4..5 : donations[i].Amount = NotAvailable /\ Named(donations[i]) # {}
    /\ students # before
    /\ students = assignDonationsToStudentsOfTypes(before, <<txn>>)
    /\ students["Bob"].TotalDonationAmount > 0

----------------------------------------------------------------------------
(* C23 *)

\* the sequence s without its element i
Without(s, i) == SubSeq(s, 1, i - 1) \o SubSeq(s, i + 1, Len(s))

\* the permutations of the sequence s
RECURSIVE PermutationsOf(_)
PermutationsOf(s) ==
    IF s = <<>> THEN {<<>>}
    ELSE UNION {{<<s[i]>> \o p : p \in PermutationsOf(Without(s, i))} :
                   i \in 1..Len(s)}

\* the roster the engine makes of the parent records and the list ts
RosterOf(ts) == assignDonationsToStudents(makeStudentRows(parents), ts)

\* the totals at the return are the totals of every permutation of the list
TotalsOfAnyOrder ==
    pc = "done" =>
        \A ts \in PermutationsOf(donations) : \A n \in DOMAIN students :
            RosterOf(ts)[n].TotalDonationAmount = students[n].TotalDonationAmount

\* the slots of a student have its first three donors in the order of their
\* first gifts; a later donor is in no slot
SlotsInInputOrder ==
    \A n \in DOMAIN students :
        LET donors == DistinctDonors(Received(n))
        IN  /\ \A i \in Slots :
                   DonorName(students[n], i)
                       = IF i <= Len(donors) THEN donors[i] ELSE ""
            /\ \A d \in LateDonors(Received(n)) : \A i \in Slots :
                   DonorName(students[n], i) # d

\* C23: order sensitivity.  With exact arithmetic the final
\* TotalDonationAmount of every student is the same for every permutation of
\* the list of transactions; the donor names of the slots depend on the
\* order: the first three distinct donors of a student in input order have
\* the slots 1, 2, 3, and the donors after them have none.
C23_OrderSensitivity == TotalsOfAnyOrder /\ SlotsInInputOrder

\* Alice has been given by Mom, Dad, Gran and then Aunt, who has no slot; in
\* another order of the same list Aunt has slot 1 and the totals are the same
C23_Witness ==
    /\ pc = "done"
    /\ "Alice" \in DOMAIN students
    /\ DistinctDonors(Received("Alice")) = <<"Mom", "Dad", "Gran", "Aunt">>
    /\ students["Alice"].PrimaryDonor1 = "Mom"
    /\ \A i \in Slots : DonorName(students["Alice"], i) # "Aunt"
    /\ \E ts \in PermutationsOf(donations) :
           /\ RosterOf(ts)["Alice"].PrimaryDonor1 = "Aunt"
           /\ \A i \in Slots : DonorName(RosterOf(ts)["Alice"], i) # "Gran"
           /\ RosterOf(ts)["Alice"].TotalDonationAmount
                  = students["Alice"].TotalDonationAmount

----------------------------------------------------------------------------
(* C24 *)

\* the amount text of t is one parseDollarAmount prints an error for
Unparseable(t) == ~ParseFloat(TrimPrefix(t.Amount, "$")).ok

EmptyDonorSlots(s) == {i \in Slots : DonorName(s, i) = ""}

\* a pass for a beneficiary of the roster with a free slot and a donor who is
\* in none of its slots, of a transaction whose amount does not parse
C24_Step ==
    ( /\ AtBeneficiary
      /\ Unparseable(txn)
      /\ \A i \in Slots : DonorName(students[validSiblings[sib]], i) # txn.Name
      /\ EmptyDonorSlots(students[validSiblings[sib]]) # {} ) =>
        LET n == validSiblings[sib]
            first == Least(EmptyDonorSlots(students[n]))
        IN  /\ donationPerStudent = 0
            /\ DonorName(students'[n], first) = txn.Name
            /\ DonorAmount(students'[n], first) = 0
            /\ students'[n].PrimaryDonorsPerStudent
                   = students[n].PrimaryDonorsPerStudent + 1
            /\ students'[n].TotalDonationAmount = students[n].TotalDonationAmount

\* a slot that has a name and the amount 0 keeps the name
ZeroSlotStays ==
    \A n \in DOMAIN students : \A i \in Slots :
        (DonorName(students[n], i) # "" /\ DonorAmount(students[n], i) = 0) =>
            DonorName(students'[n], i) = DonorName(students[n], i)

\* C24: zero-amount donors consume capacity.  A transaction whose amount text
\* does not parse (share 0), of a donor who is in no slot of a beneficiary of
\* the roster, writes the donor's name into the first empty donor slot of the
\* student with amount 0 and raises PrimaryDonorsPerStudent, the total stays;
\* the slot is not free for a later donor.
C24_ZeroAmountDonors == [][C24_Step /\ ZeroSlotStays]_vars

\* Aunt's "N/A" took slot 1 of Bob; Mom's ten dollars, given after it, are in
\* slot 2
C24_Witness ==
    /\ pc = "assign"
    /\ Len(Received("Bob")) = 2
    /\ Received("Bob")[1] = <<"Aunt", 0>>
    /\ Received("Bob")[2] = <<"Mom", Money(10, 0)>>
    /\ students["Bob"].PrimaryDonor1 = "Aunt"
    /\ students["Bob"].PrimaryDonor1DonationAmount = 0
    /\ students["Bob"].PrimaryDonor2 = "Mom"
    /\ students["Bob"].PrimaryDonor2DonationAmount = Money(10, 0)
    /\ students["Bob"].PrimaryDonorsPerStudent = 2
    /\ students["Bob"].TotalDonationAmount = Money(10, 0)

----------------------------------------------------------------------------
(* C25 *)

\* the failures the sentence names, as sets of steps of run()
RosterReading == {"264 makeStudentRows"}
TransactionReading ==
    {"270 readTransactions", "338 readTransactionsByNonCareGivers"}
SheetConstruction == SheetCalls \cup {"302 SetSheetRow"}
ReportWrite == {"372 writeBucketObject", "402 w.Close"}

\* the steps run() returns on
ReturningSteps ==
    {RunSteps[i].at : i \in {j \in 1..Len(RunSteps) : RunSteps[j].onError = "return"}}

\* the delete is reached, and the transaction object is gone, only if
\* writeBucketObject has returned nil
DeletedOnlyAfterWrite ==
    (pc = "380 deleteBucketObject" \/ txnsFile \notin bucket) =>
        "372 writeBucketObject" \notin errors

\* after an error run() returns on, run() has returned and the transaction
\* object is in the bucket
ReturningErrorKeepsObject ==
    errors \cap ReturningSteps # {} => pc = "returned" /\ txnsFile \in bucket

\* the transaction object is gone only if the report is in the bucket
DeletedOnlyIfReported == txnsFile \notin bucket => outputFile \in bucket

\* after an error of one of the sets F, the delete is not reached and the
\* transaction object is in the bucket
KeepsObjectAfter(F) ==
    errors \cap F # {} =>
        pc # "380 deleteBucketObject" /\ txnsFile \in bucket
SheetErrorKeepsObject == KeepsObjectAfter(SheetConstruction)
WriteErrorKeepsObject == KeepsObjectAfter(ReportWrite)

\* C25: cloud run ordering.  The transaction object that triggered the
\* function is deleted from the bucket only after writeBucketObject has
\* returned without an error; if the reading of the roster, the reading of
\* the transactions, the construction of the sheets or the writing of the
\* report fails, run() returns before the delete and the transaction object
\* is still in the bucket.
C25_RunOrdering ==
    /\ DeletedOnlyAfterWrite
    /\ KeepsObjectAfter(RosterReading \cup TransactionReading
                            \cup SheetConstruction \cup ReportWrite)

----------------------------------------------------------------------------
(* C26 *)

\* the slots of s that hold the caregiver name c
SlotsOf(s, c) == {i \in Slots : Caregiver(s, i) = c}

\* how many of the first three pairs of given have the caregiver name c
TimesGiven(given, c) ==
    Cardinality({k \in 1..Len(given) : k <= 3 /\ given[k][1] = c})

\* a name has as many slots of a student as the first three pairs of the
\* student have it, the same name as often as it was paired
SlotPerPair ==
    LET done == PairsDone
    IN  \A n \in DOMAIN students :
            LET given == PairsFor(done, n)
            IN  \A c \in ParentNames :
                    Cardinality(SlotsOf(students[n], c)) = TimesGiven(given, c)

\* a pass for a child whose student has the name of the parent in a slot
\* and has a slot empty: the name gets the first empty slot as well
C26_Step ==
    ( /\ pc = "makeStudentRows"
      /\ pi <= Len(parents)
      /\ parents[pi].Children[ci].Name \in DOMAIN students
      /\ SlotsOf(students[parents[pi].Children[ci].Name], parents[pi].Name) # {}
      /\ EmptyCaregiverSlots(students[parents[pi].Children[ci].Name]) # {} ) =>
        LET n == parents[pi].Children[ci].Name
            c == parents[pi].Name
            first == Least(EmptyCaregiverSlots(students[n]))
        IN  /\ SlotsOf(students'[n], c) = SlotsOf(students[n], c) \cup {first}
            /\ Len(PairsDone') = Len(PairsDone) + 1

\* C26: caregiver slots are not deduplicated.  makeStudentRows calls
\* addParent once for every pair of a parent record and a child, in input
\* order, and compares no names: a caregiver name paired with the same child
\* name in two records, or twice in the child list of one record, has two of
\* the caregiver slots of the student.
C26_NoDeduplication == []SlotPerPair /\ [][C26_Step]_vars

\* Mom has Alice twice in the child list of a record and once more in the
\* next record: the three caregiver slots of Alice are Mom
C26_Witness ==
    /\ pc = "readTransactions"
    /\ Len(parents) = 2
    /\ parents[1].Name = "Mom" /\ parents[2].Name = "Mom"
    /\ Len(parents[1].Children) = 2
    /\ parents[1].Children[1].Name = "Alice"
    /\ parents[1].Children[2].Name = "Alice"
    /\ Len(parents[2].Children) = 1
    /\ parents[2].Children[1].Name = "Alice"
    /\ SlotsOf(students["Alice"], "Mom") = Slots

====
